---- MODULE Spec2Model ----
(***************************************************************************)
(* Model of the market-intelligence pipeline of AlphaScope Bot             *)
(* (src/bot.py): the provider adapters of CryptoDataFetcher, the filter    *)
(* and rank rules of get_top_movers / get_hot_defi_projects, the           *)
(* MessageFormatter and the composer AlphaScopeBot.create_market_summary,  *)
(* several compositions in progress on the global bot_instance, and the    *)
(* handlers of the menu, help and about pages with the error handler.      *)
(*                                                                         *)
(* Python values are modelled as tagged records:                           *)
(*   None -> [t |-> "null"],  a number -> [t |-> "num", v |-> n],          *)
(*   a str -> [t |-> "str", v |-> s],  a list -> [t |-> "arr", v |-> seq], *)
(*   a dict -> [t |-> "obj", k |-> keys, v |-> f] with keys the sequence   *)
(*   of its keys in insertion order and f the function from the keys to    *)
(*   the values.  Numbers are integers below 2^53 in magnitude; one of     *)
(*   2 * 10^9 or more is [t |-> "big", hi |-> h, lo |-> l] for             *)
(*   h * 10^9 + l.  Strings are ASCII.  A text is the sequence of its      *)
(*   lines (the "\n".join of the source); emoji of the literals are left   *)
(*   out of the line texts.                                                *)
(* A computation that may raise yields [raised, err, val]: err is the      *)
(* str() of the exception.                                                 *)
(***************************************************************************)
EXTENDS Integers, Sequences, FiniteSets, TLC

VARIABLES pc, http, calls, market_overview, gainer, loser, trending,
          hot_defi, fear_greed, btc_data, current_time, caught, result,
          arg, update, delivered, requests, frames, instance

vars == <<pc, http, calls, market_overview, gainer, loser, trending,
          hot_defi, fear_greed, btc_data, current_time, caught, result,
          arg, update, delivered, requests, frames, instance>>

\* arg: the argument of a formatter call; update, delivered: the update a
\* handler works on and the texts sent to its chat; requests, frames: the
\* activations of create_market_summary that are in progress and their
\* local variables; instance: the global bot_instance
extra == <<arg, update, delivered, requests, frames, instance>>

locals == <<market_overview, gainer, loser, trending, hot_defi, fear_greed,
            btc_data>>


(***************************************************************************)
(* Python values                                                           *)
(***************************************************************************)
JNull == [t |-> "null"]

JNum(n) == [t |-> "num", v |-> n]

JStr(s) == [t |-> "str", v |-> s]

\* a dict: k is the sequence of its keys in insertion order, v the function
\* from the keys to the values
JObj(k, f) == [t |-> "obj", k |-> k, v |-> f]

JArr(s) == [t |-> "arr", v |-> s]

EmptyDict == JObj(<<>>, [x \in {} |-> JNull])

EmptyList == JArr(<<>>)

\* an integer n with |n| >= 2 * 10^9: hi * 10^9 + lo, with |lo| < 10^9 and
\* lo of the sign of hi
BILLION == 1000000000

JBig(hi, lo) == [t |-> "big", hi |-> hi, lo |-> lo]

Abs(n) == IF n < 0 THEN 0 - n ELSE n

\* sign and magnitude of a number, the magnitude as hi * 10^9 + lo
Limbs(num) ==
    IF num.t = "big"
    THEN [neg |-> num.hi < 0, hi |-> Abs(num.hi), lo |-> Abs(num.lo)]
    ELSE [neg |-> num.v < 0, hi |-> Abs(num.v) \div BILLION,
          lo |-> Abs(num.v) % BILLION]

IsNumber(x) == x.t \in {"num", "big"}

\* a < b of two integers
NumLess(a, b) ==
    LET x == Limbs(a)
        y == Limbs(b)
        below(u, w) == u.hi < w.hi \/ (u.hi = w.hi /\ u.lo < w.lo)
    IN  IF x.neg # y.neg THEN x.neg
        ELSE IF x.neg THEN below(y, x) ELSE below(x, y)

\* bool(x) of Python: None, 0, "", {} and [] are falsy
Truthy(x) ==
    CASE x.t = "null" -> FALSE
      [] x.t = "num" -> x.v # 0
      [] x.t = "big" -> TRUE
      [] x.t = "str" -> x.v # ""
      [] x.t = "obj" -> DOMAIN x.v # {}
      [] x.t = "arr" -> x.v # <<>>

\* type(x).__name__ as it appears in the text of TypeError / AttributeError
PyTypeName(x) ==
    CASE x.t = "null" -> "NoneType"
      [] x.t = "num" -> "int"
      [] x.t = "big" -> "int"
      [] x.t = "str" -> "str"
      [] x.t = "obj" -> "dict"
      [] x.t = "arr" -> "list"

Ok(x) == [raised |-> FALSE, err |-> "", val |-> x]

Raise(e) == [raised |-> TRUE, err |-> e, val |-> JNull]

\* the rest F of a computation applied to the value of r, unless r raised
Then(r, F(_)) == IF r.raised THEN r ELSE F(r.val)

\* the characters of ASCII from the space (32) to the underscore (95) and
\* from a (97) to the tilde (126); a string of TLA+ cannot hold the
\* backquote (96)
Printable ==
    " !\"#$%&'()*+,-./0123456789:;<=>?@ABCDEFGHIJKLMNOPQRSTUVWXYZ[\\]^_"

\* ord(c) of a character; 128 stands for a character beyond these
Ord(c) ==
    LET Letters == "abcdefghijklmnopqrstuvwxyz{|}~"
    IN  IF \E i \in 1..64 : SubSeq(Printable, i, i) = c
        THEN 31 + CHOOSE i \in 1..64 : SubSeq(Printable, i, i) = c
        ELSE IF \E i \in 1..30 : SubSeq(Letters, i, i) = c
        THEN 96 + CHOOSE i \in 1..30 : SubSeq(Letters, i, i) = c
        ELSE CASE c = "\t" -> 9
           [] c = "\n" -> 10
           [] c = "\f" -> 12
           [] c = "\r" -> 13
           [] OTHER -> 128

\* repr(s) of a str: quoted by ' unless s holds a ' and no "
ReprStr(s) ==
    LET has(c) == \E i \in 1..Len(s) : SubSeq(s, i, i) = c
        quote == IF has("'") /\ ~has("\"") THEN "\"" ELSE "'"
        esc(c) == CASE c = "\\" -> "\\\\"
                    [] c = quote -> "\\" \o c
                    [] c = "\n" -> "\\n"
                    [] c = "\t" -> "\\t"
                    [] c = "\r" -> "\\r"
                    [] c = "\f" -> "\\x0c"
                    [] OTHER -> c
        RECURSIVE body(_)
        body(i) == IF i > Len(s) THEN ""
                   ELSE esc(SubSeq(s, i, i)) \o body(i + 1)
    IN  quote \o body(1) \o quote

Pad2(n) == IF n < 10 THEN "0" \o ToString(n) ELSE ToString(n)

\* the decimal digits of a magnitude, in groups of three joined by sep
Decimal(x, sep) ==
    LET Pad3(n) == IF n < 100 THEN "0" \o Pad2(n) ELSE ToString(n)
        RECURSIVE groups(_)
        groups(n) == IF n < 1000 THEN ToString(n)
                     ELSE groups(n \div 1000) \o sep \o Pad3(n % 1000)
    IN  IF x.hi = 0 THEN groups(x.lo)
        ELSE groups(x.hi) \o sep \o Pad3(x.lo \div 1000000) \o sep
             \o Pad3((x.lo \div 1000) % 1000) \o sep \o Pad3(x.lo % 1000)

\* repr(x); of an integer its sign and decimal digits
RECURSIVE PyRepr(_)
PyRepr(x) ==
    LET RECURSIVE join(_)
        join(parts) == IF parts = <<>> THEN ""
                       ELSE IF Len(parts) = 1 THEN parts[1]
                       ELSE parts[1] \o ", " \o join(Tail(parts))
    IN  CASE x.t = "null" -> "None"
          [] IsNumber(x) ->
                (IF Limbs(x).neg THEN "-" ELSE "") \o Decimal(Limbs(x), "")
          [] x.t = "str" -> ReprStr(x.v)
          [] x.t = "arr" ->
                "[" \o join([i \in 1..Len(x.v) |-> PyRepr(x.v[i])]) \o "]"
          [] x.t = "obj" ->
                "{" \o join([i \in 1..Len(x.k) |->
                               ReprStr(x.k[i]) \o ": " \o PyRepr(x.v[x.k[i]])])
                \o "}"

\* str(x) as an f-string interpolates it
PyStr(x) == IF x.t = "str" THEN x.v ELSE PyRepr(x)

\* d.get(k, default): AttributeError when d is not a dict
DictGet(d, k, default) ==
    IF d.t = "obj"
    THEN Ok(IF k \in DOMAIN d.v THEN d.v[k] ELSE default)
    ELSE Raise("'" \o PyTypeName(d) \o "' object has no attribute 'get'")

\* d.get(k, default) for a d known to be a dict
GetOr(d, k, default) == IF k \in DOMAIN d.v THEN d.v[k] ELSE default

\* k in d for a str k: a key of a dict, an element of a list, a substring
\* of a str; TypeError for a number or None
Contains(d, k) ==
    CASE d.t = "obj" -> Ok(k \in DOMAIN d.v)
      [] d.t = "arr" -> Ok(\E i \in 1..Len(d.v) : d.v[i] = JStr(k))
      [] d.t = "str" -> Ok(\E i \in 1..(Len(d.v) - Len(k) + 1) :
                              SubSeq(d.v, i, i + Len(k) - 1) = k)
      [] OTHER -> Raise("argument of type '" \o PyTypeName(d)
                        \o "' is not iterable")

\* data[k] for a str k: KeyError for a dict without k, TypeError otherwise
Subscript(data, k) ==
    CASE data.t = "obj" -> IF k \in DOMAIN data.v THEN Ok(data.v[k])
                           ELSE Raise(ReprStr(k))
      [] data.t = "arr" ->
            Raise("list indices must be integers or slices, not str")
      [] data.t = "str" -> Raise("string indices must be integers, not 'str'")
      [] OTHER -> Raise("'" \o PyTypeName(data)
                        \o "' object is not subscriptable")

\* x[0]
Index0(x) ==
    CASE x.t = "arr" -> IF x.v = <<>> THEN Raise("list index out of range")
                        ELSE Ok(x.v[1])
      [] x.t = "str" -> IF x.v = "" THEN Raise("string index out of range")
                        ELSE Ok(JStr(SubSeq(x.v, 1, 1)))
      [] x.t = "obj" -> Raise("0")
      [] OTHER -> Raise("'" \o PyTypeName(x) \o "' object is not subscriptable")

\* a slice that keeps one element too many
Take_OneMore(s, n) == SubSeq(s, 1, IF Len(s) < n + 1 THEN Len(s) ELSE n + 1)

\* s[:n] of a sequence or a string
Take(s, n) == SubSeq(s, 1, IF Len(s) < n THEN Len(s) ELSE n)

\* x[:n]: TypeError when x is neither a str nor a list
Slice(x, n) ==
    CASE x.t = "str" -> Ok(JStr(Take(x.v, n)))
      [] x.t = "arr" -> Ok(JArr(Take(x.v, n)))
      [] x.t = "obj" -> Raise("unhashable type: 'slice'")
      [] OTHER -> Raise("'" \o PyTypeName(x) \o "' object is not subscriptable")

\* the elements "for e in x" visits: those of a list, the characters of a
\* str, the keys of a dict; TypeError for a number or None
Iterate(x) ==
    CASE x.t = "arr" -> Ok(x.v)
      [] x.t = "str" -> Ok([i \in 1..Len(x.v) |-> JStr(SubSeq(x.v, i, i))])
      [] x.t = "obj" -> Ok([i \in 1..Len(x.k) |-> JStr(x.k[i])])
      [] OTHER -> Raise("'" \o PyTypeName(x) \o "' object is not iterable")

\* a == b: a dict equals a dict of the same items in any order
RECURSIVE PyEq(_, _)
PyEq(a, b) ==
    IF a.t # b.t THEN FALSE
    ELSE CASE a.t = "arr" -> /\ Len(a.v) = Len(b.v)
                             /\ \A i \in 1..Len(a.v) : PyEq(a.v[i], b.v[i])
           [] a.t = "obj" -> /\ DOMAIN a.v = DOMAIN b.v
                             /\ \A key \in DOMAIN a.v : PyEq(a.v[key], b.v[key])
           [] OTHER -> a = b

\* a < b: integers, str (by the code points of the first difference) and
\* lists are ordered among themselves; TypeError for any other pair
RECURSIVE PyLess(_, _)
PyLess(a, b) ==
    LET RECURSIVE StrLess(_, _)
        StrLess(s, t) ==
            IF t = "" THEN FALSE
            ELSE IF s = "" THEN TRUE
            ELSE IF SubSeq(s, 1, 1) # SubSeq(t, 1, 1)
            THEN Ord(SubSeq(s, 1, 1)) < Ord(SubSeq(t, 1, 1))
            ELSE StrLess(SubSeq(s, 2, Len(s)), SubSeq(t, 2, Len(t)))
        same(i) == PyEq(a.v[i], b.v[i])
        shorter == IF Len(a.v) < Len(b.v) THEN Len(a.v) ELSE Len(b.v)
    IN  IF IsNumber(a) /\ IsNumber(b) THEN Ok(NumLess(a, b))
        ELSE IF a.t = "str" /\ b.t = "str" THEN Ok(StrLess(a.v, b.v))
        ELSE IF a.t = "arr" /\ b.t = "arr"
        THEN IF \A i \in 1..shorter : same(i) THEN Ok(Len(a.v) < Len(b.v))
             ELSE LET at == CHOOSE i \in 1..shorter :
                                ~same(i) /\ \A j \in 1..(i - 1) : same(j)
                  IN  PyLess(a.v[at], b.v[at])
        ELSE Raise("'<' not supported between instances of '"
                   \o PyTypeName(a) \o "' and '" \o PyTypeName(b) \o "'")

(***************************************************************************)
(* HTTP outcomes and CryptoDataFetcher._make_request                       *)
(***************************************************************************)
\* the four failures of session.get / raise_for_status / response.json,
\* named by the exception class they raise
FailureKinds == {"Timeout", "ConnectionError", "HTTPError", "JSONDecodeError"}

\* subclasses of requests.exceptions.RequestException among the failures;
\* the JSONDecodeError of response.json() is also a json.JSONDecodeError
IsRequestException(kind) ==
    kind \in {"Timeout", "ConnectionError", "HTTPError", "JSONDecodeError"}

IsJsonDecodeError(kind) == kind = "JSONDecodeError"

\* _make_request without the handler of the decode error
_make_request_DecodeUncaught(resp) ==
    IF resp.kind = "ok" THEN Ok(resp.body)
    ELSE IF resp.kind = "JSONDecodeError"
    THEN Raise("Expecting value: line 1 column 1 (char 0)")
    ELSE Ok(JNull)

_make_request(resp) ==
    IF resp.kind = "ok" THEN Ok(resp.body)
    ELSE IF resp.kind = "Timeout" THEN Ok(JNull)
    ELSE IF IsRequestException(resp.kind) THEN Ok(JNull)
    ELSE IF IsJsonDecodeError(resp.kind) THEN Ok(JNull)
    ELSE Raise(resp.kind)


(***************************************************************************)
(* sorted(items, key=..., reverse=...).  keys is the sequence of the sort  *)
(* keys of items.  CPython sorts fewer than 64 keys by counting the first  *)
(* run (reversed when strictly descending) and inserting every other key   *)
(* by binary search; each comparison is a < of two keys and may raise.     *)
(* reverse=True sorts the reversed list and reverses the result.           *)
(***************************************************************************)
\* a comparison that takes equal keys for ordered
ISLT_OrEqual(keys, a, b) ==
    LET c == PyLess(keys[b], keys[a])
    IN  IF c.raised THEN c ELSE Ok(~c.val)

\* keys[a] < keys[b]
ISLT(keys, a, b) == PyLess(keys[a], keys[b])

\* the indices of keys in sorted order
ListSort(keys) ==
    LET n == Len(keys)
        RECURSIVE count_run(_, _)
        count_run(i, descending) ==
            IF i = n THEN Ok(i)
            ELSE Then(ISLT(keys, i + 1, i), LAMBDA lt :
                      IF lt = descending THEN count_run(i + 1, descending)
                      ELSE Ok(i))
        RECURSIVE search(_, _, _, _)
        search(p, pivot, l, r) ==
            IF l >= r THEN Ok(l)
            ELSE Then(ISLT(keys, pivot, p[l + (r - l) \div 2]), LAMBDA lt :
                      IF lt THEN search(p, pivot, l, l + (r - l) \div 2)
                      ELSE search(p, pivot, l + (r - l) \div 2 + 1, r))
        RECURSIVE binarysort(_, _)
        binarysort(p, start) ==
            IF start > n THEN Ok(p)
            ELSE Then(search(p, p[start], 1, start), LAMBDA at :
                      binarysort(SubSeq(p, 1, at - 1) \o <<p[start]>>
                                 \o SubSeq(p, at, start - 1)
                                 \o SubSeq(p, start + 1, n),
                                 start + 1))
    IN  IF n < 2 THEN Ok([i \in 1..n |-> i])
        ELSE Then(ISLT(keys, 2, 1), LAMBDA descending :
             Then(count_run(2, descending), LAMBDA run :
                  binarysort([i \in 1..n |->
                                IF descending /\ i <= run THEN run + 1 - i
                                ELSE i],
                             run + 1)))

\* no sort at all
sorted_Unsorted(items, keys, reverse) == Ok(items)

sorted(items, keys, reverse) ==
    LET n == Len(items)
        mirror(s) == [i \in 1..n |-> s[n + 1 - i]]
    IN  Then(ListSort(IF reverse THEN mirror(keys) ELSE keys), LAMBDA order :
             Ok(IF reverse
                THEN mirror([p \in 1..n |-> mirror(items)[order[p]]])
                ELSE [p \in 1..n |-> items[order[p]]]))

\* the values of a sequence of results, or the first of them that raised
RECURSIVE Gathered(_)
Gathered(rs) ==
    IF rs = <<>> THEN Ok(<<>>)
    ELSE Then(rs[1], LAMBDA x :
         Then(Gathered(Tail(rs)), LAMBDA rest : Ok(<<x>> \o rest)))

\* the subsequence of the elements of s whose flag in keep is TRUE
RECURSIVE Filter(_, _)
Filter(s, keep) ==
    IF s = <<>> THEN <<>>
    ELSE (IF keep[1] THEN <<s[1]>> ELSE <<>>) \o Filter(Tail(s), Tail(keep))

(***************************************************************************)
(* int(x)                                                                  *)
(***************************************************************************)
\* int() of an integer, of None (TypeError) and of a str: blanks around an
\* optional sign and decimal digits, single underscores between the digits;
\* ValueError for any other str
PyInt(x) ==
    LET blank(c) == c \in {" ", "\t", "\n", "\r", "\f"}
        IsDigit(c) == Ord(c) \in 48..57
        RECURSIVE ParseNat(_)
        ParseNat(t) ==
            IF Len(t) = 0 THEN 0
            ELSE 10 * ParseNat(SubSeq(t, 1, Len(t) - 1))
                 + (Ord(SubSeq(t, Len(t), Len(t))) - 48)
        \* the integer of a sign and a magnitude high * 10^9 + low
        Number(minus, high, low) ==
            IF high < 2
            THEN JNum(IF minus THEN 0 - (high * BILLION + low)
                      ELSE high * BILLION + low)
            ELSE JBig(IF minus THEN 0 - high ELSE high,
                      IF minus THEN 0 - low ELSE low)
        s == x.v
        ch(i) == SubSeq(s, i, i)
        solid == {i \in 1..Len(s) : ~blank(ch(i))}
        lo == CHOOSE i \in solid : \A j \in solid : i <= j
        hi == CHOOSE i \in solid : \A j \in solid : j <= i
        signed == ch(lo) \in {"+", "-"}
        from == IF signed THEN lo + 1 ELSE lo
        literal == /\ solid # {}
                   /\ from <= hi
                   /\ \A i \in from..hi :
                        \/ IsDigit(ch(i))
                        \/ /\ ch(i) = "_"
                           /\ from < i /\ i < hi
                           /\ IsDigit(ch(i - 1)) /\ IsDigit(ch(i + 1))
        RECURSIVE digits(_)
        digits(i) == IF i > hi THEN ""
                     ELSE (IF ch(i) = "_" THEN "" ELSE ch(i)) \o digits(i + 1)
        RECURSIVE significant(_)
        significant(d) == IF Len(d) > 1 /\ SubSeq(d, 1, 1) = "0"
                          THEN significant(SubSeq(d, 2, Len(d)))
                          ELSE d
        d == significant(digits(from))
        neg == ch(lo) = "-" /\ d # "0"
    IN  CASE IsNumber(x) -> Ok(x)
          [] x.t = "str" ->
                IF ~literal
                THEN Raise("invalid literal for int() with base 10: "
                           \o ReprStr(s))
                ELSE IF Len(d) <= 9
                THEN Ok(Number(neg, 0, ParseNat(d)))
                ELSE Ok(Number(neg, ParseNat(SubSeq(d, 1, Len(d) - 9)),
                               ParseNat(SubSeq(d, Len(d) - 8, Len(d)))))
          [] OTHER ->
                Raise("int() argument must be a string, a bytes-like object or a real number, not '"
                      \o PyTypeName(x) \o "'")

(***************************************************************************)
(* CryptoDataFetcher: the provider adapters.  Each takes the outcome of    *)
(* its single HTTP GET.                                                    *)
(***************************************************************************)
MIN_MARKET_CAP == 1000000

MIN_TVL == 1000000

TRENDING_LIMIT == 5

DEFI_LIMIT == 5

\* d.get(k1, {}).get(k2, 0)
NestedGet(d, k1, k2) ==
    Then(DictGet(d, k1, EmptyDict), LAMBDA a : DictGet(a, k2, JNum(0)))

\* the test "not data or key not in data" of an adapter
Lacks(data, key) ==
    IF ~Truthy(data) THEN Ok(TRUE)
    ELSE Then(Contains(data, key), LAMBDA found : Ok(~found))

get_market_overview(resp) ==
    Then(_make_request(resp), LAMBDA data :
    Then(Lacks(data, "data"), LAMBDA lacks :
         IF lacks THEN Ok(EmptyDict)
         ELSE Then(Subscript(data, "data"), LAMBDA global_data :
              Then(Gathered(<<
                       NestedGet(global_data, "total_market_cap", "usd"),
                       NestedGet(global_data, "total_volume", "usd"),
                       DictGet(global_data,
                               "market_cap_change_percentage_24h_usd", JNum(0)),
                       DictGet(global_data, "active_cryptocurrencies", JNum(0)),
                       NestedGet(global_data, "market_cap_percentage", "btc")>>),
                   LAMBDA field :
                   Ok(JObj(<<"total_market_cap_usd", "total_volume_usd",
                             "market_cap_change_24h",
                             "active_cryptocurrencies", "btc_dominance">>,
                           [total_market_cap_usd |-> field[1],
                            total_volume_usd |-> field[2],
                            market_cap_change_24h |-> field[3],
                            active_cryptocurrencies |-> field[4],
                            btc_dominance |-> field[5]]))))))

\* the eligibility test with >= in place of >
Eligible_Inclusive(entry, pctKey, amtKey, limit) ==
    IF entry.t # "obj"
    THEN Raise("'" \o PyTypeName(entry) \o "' object has no attribute 'get'")
    ELSE LET pct == GetOr(entry, pctKey, JNull)
             amt == GetOr(entry, amtKey, JNull)
         IN  IF pct.t = "null" \/ amt.t = "null" THEN Ok(FALSE)
             ELSE IF ~IsNumber(amt)
             THEN Raise("'>' not supported between instances of '"
                        \o PyTypeName(amt) \o "' and 'int'")
             ELSE Ok(~NumLess(amt, JNum(limit)))

\* x is not None and y is not None and y > limit, for an element of a
\* listing, with x = entry.get(pctKey), y = entry.get(amtKey)
Eligible(entry, pctKey, amtKey, limit) ==
    IF entry.t # "obj"
    THEN Raise("'" \o PyTypeName(entry) \o "' object has no attribute 'get'")
    ELSE LET pct == GetOr(entry, pctKey, JNull)
             amt == GetOr(entry, amtKey, JNull)
         IN  IF pct.t = "null" \/ amt.t = "null" THEN Ok(FALSE)
             ELSE IF ~IsNumber(amt)
             THEN Raise("'>' not supported between instances of '"
                        \o PyTypeName(amt) \o "' and 'int'")
             ELSE Ok(NumLess(JNum(limit), amt))

\* [e for e in data if <Eligible>]
Retained(data, pctKey, amtKey, limit) ==
    Then(Iterate(data), LAMBDA elements :
    Then(Gathered([i \in 1..Len(elements) |->
                      Eligible(elements[i], pctKey, amtKey, limit)]),
         LAMBDA keep : Ok(Filter(elements, keep))))

NoMovers == <<JNull, JNull>>

get_top_movers(resp) ==
    Then(_make_request(resp), LAMBDA data :
         IF ~Truthy(data) THEN Ok(NoMovers)
         ELSE Then(Retained(data, "price_change_percentage_24h",
                            "market_cap", MIN_MARKET_CAP),
                   LAMBDA valid_coins :
                   IF valid_coins = <<>> THEN Ok(NoMovers)
                   ELSE Then(sorted(valid_coins,
                                    [i \in 1..Len(valid_coins) |->
                                       valid_coins[i].v[
                                           "price_change_percentage_24h"]],
                                    FALSE),
                             LAMBDA sorted_coins :
                             Ok(<<sorted_coins[Len(sorted_coins)],
                                  sorted_coins[1]>>))))

get_hot_defi_projects(resp) ==
    Then(_make_request(resp), LAMBDA data :
         IF ~Truthy(data) THEN Ok(EmptyList)
         ELSE Then(Retained(data, "change_1d", "tvl", MIN_TVL),
                   LAMBDA valid_projects :
              Then(sorted(valid_projects,
                          [i \in 1..Len(valid_projects) |->
                             GetOr(valid_projects[i], "change_1d", JNum(0))],
                          TRUE),
                   LAMBDA hot_projects :
                   Ok(JArr(Take(hot_projects, DEFI_LIMIT))))))

\* one entry of the trending list: item.get('item', {}) and its four fields
TrendingEntry(item) ==
    Then(DictGet(item, "item", EmptyDict), LAMBDA coin :
         IF coin.t # "obj"
         THEN Raise("'" \o PyTypeName(coin) \o "' object has no attribute 'get'")
         ELSE Ok(JObj(<<"name", "symbol", "market_cap_rank", "price_btc">>,
                      [name |-> GetOr(coin, "name", JStr("Unknown")),
                       symbol |-> GetOr(coin, "symbol", JStr("")),
                       market_cap_rank |-> GetOr(coin, "market_cap_rank", JNull),
                       price_btc |-> GetOr(coin, "price_btc", JNum(0))])))

get_trending_coins(resp) ==
    Then(_make_request(resp), LAMBDA data :
    Then(Lacks(data, "coins"), LAMBDA lacks :
         IF lacks THEN Ok(EmptyList)
         ELSE Then(Subscript(data, "coins"), LAMBDA coins :
              Then(Slice(coins, TRENDING_LIMIT), LAMBDA top :
              Then(Iterate(top), LAMBDA items :
              Then(Gathered([i \in 1..Len(items) |-> TrendingEntry(items[i])]),
                   LAMBDA entries : Ok(JArr(entries))))))))

get_fear_greed_index(resp) ==
    Then(_make_request(resp), LAMBDA data :
    Then(Lacks(data, "data"), LAMBDA lacks :
         IF lacks THEN Ok(JNull)
         ELSE Then(Subscript(data, "data"), LAMBDA readings :
              IF ~Truthy(readings) THEN Ok(JNull)
              ELSE Then(Index0(readings), LAMBDA index_data :
                   Then(DictGet(index_data, "value", JNum(0)), LAMBDA raw :
                   Then(PyInt(raw), LAMBDA value :
                        Ok(JObj(<<"value", "classification", "timestamp">>,
                                [value |-> value,
                                 classification |->
                                     GetOr(index_data, "value_classification",
                                           JStr("Unknown")),
                                 timestamp |->
                                     GetOr(index_data, "timestamp",
                                           JStr(""))]))))))))

get_bitcoin_price(resp) ==
    Then(_make_request(resp), LAMBDA data :
    Then(Lacks(data, "bitcoin"), LAMBDA lacks :
         IF lacks THEN Ok(JNull)
         ELSE Then(Subscript(data, "bitcoin"), LAMBDA btc :
              Then(DictGet(btc, "usd", JNum(0)), LAMBDA price :
                   Ok(JObj(<<"price", "change_24h", "market_cap">>,
                           [price |-> price,
                            change_24h |-> GetOr(btc, "usd_24h_change",
                                                 JNum(0)),
                            market_cap |-> GetOr(btc, "usd_market_cap",
                                                 JNum(0))]))))))

(***************************************************************************)
(* MessageFormatter.  The markers stand for the emoji of the source.       *)
(***************************************************************************)
BOT_NAME == "AlphaScope Bot"

BOT_VERSION == "3.1.1"

MARKER_UP == "(up)"

MARKER_DOWN == "(down)"

RECURSIVE Pow10(_)
Pow10(n) == IF n = 0 THEN 1 ELSE 10 * Pow10(n - 1)

\* the comparison x >= hi * 10^9 + lo
GreaterEq(x, hi, lo) ==
    ~x.neg /\ (x.hi > hi \/ (x.hi = hi /\ x.lo >= lo))

\* f"{num/10**e:.2f}" for e in {3, 6, 9, 12} and |num| < 2^53.  The quotient
\* q is a binary double and is rounded to hundredths from its exact value.
\* t is q in thousandths, cut off.  The double differs from the decimal
\* quotient by less than any digit shown, so it decides the rounding only
\* when the decimal quotient lies half-way (third decimal 5, nothing
\* after): q = m / 200 with m odd.  When 125 divides t, q is a binary
\* fraction and the tie goes to the even hundredth.  Otherwise the double
\* is m * 2^bits / 25 rounded to an integer, over 2^bits, where a double
\* has 53 bits: it lies below q when the remainder of m * 2^bits by 25 is
\* under the half, above q when it is over (2^20 = 1 modulo 25).
Scaled2(x, e) ==
    LET unit == Pow10(e - 3)
        t == x.hi * Pow10(12 - e) + x.lo \div unit
        h == t \div 10
        m == t \div 5
        RECURSIVE Pow2(_)
        Pow2(n) == IF n = 0 THEN 1 ELSE 2 * Pow2(n - 1)
        RECURSIVE magnitude(_)
        magnitude(j) == IF 25 * Pow2(j + 1) <= 32 * m THEN magnitude(j + 1)
                        ELSE j
        bits == 57 - magnitude(0)
        rem == ((m % 25) * (Pow2(bits % 20) % 25)) % 25
        up == IF t % 10 # 5 \/ x.lo % unit # 0 THEN t % 10 >= 5
              ELSE IF t % 250 = 125 THEN h % 2 = 1
              ELSE rem > 12
        r == IF up THEN h + 1 ELSE h
    IN  (IF x.neg THEN "-" ELSE "") \o ToString(r \div 100) \o "."
        \o Pad2(r % 100)

\* f"{num:.2f}" of an integer
Whole2(x) == (IF x.neg THEN "-" ELSE "") \o Decimal(x, "") \o ".00"

\* abs_num = num: the sign is kept
abs_num_Signed(num) == Limbs(num)

\* abs_num = abs(num)
abs_num(num) == [Limbs(num) EXCEPT !.neg = FALSE]

\* the suffix tier of format_number: the chain of comparisons of abs_num
\* with 1e12, 1e9, 1e6 and 1e3
Tier(a) ==
    IF GreaterEq(a, 1000, 0) THEN "T"
    ELSE IF GreaterEq(a, 1, 0) THEN "B"
    ELSE IF GreaterEq(a, 0, 1000000) THEN "M"
    ELSE IF GreaterEq(a, 0, 1000) THEN "K"
    ELSE ""

format_number(num) ==
    IF num.t = "null" THEN Ok("N/A")
    ELSE IF ~IsNumber(num)
    THEN Raise("bad operand type for abs(): '" \o PyTypeName(num) \o "'")
    ELSE LET tier == Tier(abs_num(num))
             x == Limbs(num)
         IN  Ok(CASE tier = "T" -> "$" \o Scaled2(x, 12) \o "T"
                  [] tier = "B" -> "$" \o Scaled2(x, 9) \o "B"
                  [] tier = "M" -> "$" \o Scaled2(x, 6) \o "M"
                  [] tier = "K" -> "$" \o Scaled2(x, 3) \o "K"
                  [] OTHER -> "$" \o Whole2(x))

\* format_percentage with pct >= 0 as the test of the positive marker
format_percentage_ZeroUp(pct) ==
    IF pct.t = "null" THEN Ok("N/A")
    ELSE IF ~IsNumber(pct)
    THEN Raise("'>' not supported between instances of '"
               \o PyTypeName(pct) \o "' and 'int'")
    ELSE IF ~NumLess(pct, JNum(0))
    THEN Ok(MARKER_UP \o " +" \o Whole2(Limbs(pct)) \o "%")
    ELSE Ok(MARKER_DOWN \o " " \o Whole2(Limbs(pct)) \o "%")

format_percentage(pct) ==
    IF pct.t = "null" THEN Ok("N/A")
    ELSE IF ~IsNumber(pct)
    THEN Raise("'>' not supported between instances of '"
               \o PyTypeName(pct) \o "' and 'int'")
    ELSE IF NumLess(JNum(0), pct)
    THEN Ok(MARKER_UP \o " +" \o Whole2(Limbs(pct)) \o "%")
    ELSE Ok(MARKER_DOWN \o " " \o Whole2(Limbs(pct)) \o "%")

\* get_fear_greed_emoji with an exclusive bound of the top bucket
get_fear_greed_emoji_Exclusive(value) ==
    LET at_least(n) == ~NumLess(value, JNum(n))
    IN  IF ~IsNumber(value)
        THEN Raise("'>=' not supported between instances of '"
                   \o PyTypeName(value) \o "' and 'int'")
        ELSE Ok(IF NumLess(JNum(75), value) THEN "(extreme-greed)"
                ELSE IF at_least(55) THEN "(greed)"
                ELSE IF at_least(45) THEN "(neutral)"
                ELSE IF at_least(25) THEN "(fear)"
                ELSE "(extreme-fear)")

get_fear_greed_emoji(value) ==
    LET at_least(n) == ~NumLess(value, JNum(n))
    IN  IF ~IsNumber(value)
        THEN Raise("'>=' not supported between instances of '"
                   \o PyTypeName(value) \o "' and 'int'")
        ELSE Ok(IF at_least(75) THEN "(extreme-greed)"
                ELSE IF at_least(55) THEN "(greed)"
                ELSE IF at_least(45) THEN "(neutral)"
                ELSE IF at_least(25) THEN "(fear)"
                ELSE "(extreme-fear)")

\* x.upper(): AttributeError when x is not a str
upper(x) ==
    LET up(c) == IF Ord(c) \in 97..122
                 THEN SubSeq(Printable, Ord(c) - 63, Ord(c) - 63)
                 ELSE c
        RECURSIVE all(_)
        all(s) == IF Len(s) = 0 THEN ""
                  ELSE up(SubSeq(s, 1, 1)) \o all(SubSeq(s, 2, Len(s)))
    IN  IF x.t = "str" THEN Ok(all(x.v))
        ELSE Raise("'" \o PyTypeName(x) \o "' object has no attribute 'upper'")

\* f"{x:,.0f}" and f"{x:.1f}": TypeError for None, a list and a dict,
\* ValueError for a str
FormatFloat(x, grouped) ==
    CASE IsNumber(x) ->
            Ok((IF Limbs(x).neg THEN "-" ELSE "")
               \o (IF grouped THEN Decimal(Limbs(x), ",")
                   ELSE Decimal(Limbs(x), "") \o ".0"))
      [] x.t = "str" -> Raise("Unknown format code 'f' for object of type 'str'")
      [] OTHER -> Raise("unsupported format string passed to "
                        \o PyTypeName(x) \o ".__format__")

(***************************************************************************)
(* AlphaScopeBot.create_market_summary: the sections of the report.  Each  *)
(* yields its lines, none when its data is falsy.                          *)
(***************************************************************************)
HEADER_TITLE == "*CRYPTO MARKET ALPHA*"

BTC_TITLE == "*Bitcoin*: "

OVERVIEW_TITLE == "*MARKET OVERVIEW*"

SENTIMENT_TITLE == "*SENTIMENT*"

MOVERS_TITLE == "*TOP MOVERS*"

TRENDING_TITLE == "*TRENDING*"

DEFI_TITLE == "*TOP DEFI*"

FOOTER_RULE == "--------------------"

ERROR_LIMIT == 50

NAME_LIMIT == 15

TRENDING_NAME_LIMIT == 12

CATEGORY_LIMIT == 8

TRENDING_SHOWN == 3

HeaderLines(time) == <<HEADER_TITLE, time, "">>

FooterLines ==
    <<FOOTER_RULE, "*" \o BOT_NAME \o "* v" \o BOT_VERSION,
      "Use /menu for more options">>


BitcoinSection(btc) ==
    IF ~Truthy(btc) THEN Ok(<<>>)
    ELSE Then(Subscript(btc, "price"), LAMBDA price :
         Then(FormatFloat(price, TRUE), LAMBDA btc_price :
         Then(DictGet(btc, "change_24h", JNum(0)), LAMBDA change :
         Then(format_percentage(change), LAMBDA btc_change :
              Ok(<<BTC_TITLE \o "$" \o btc_price \o " " \o btc_change,
                   "">>)))))

\* OverviewSection under the test "market_overview is not None"
OverviewSection_NotNone(mo) ==
    IF mo.t = "null" THEN Ok(<<>>)
    ELSE IF mo.t # "obj"
    THEN Raise("'" \o PyTypeName(mo) \o "' object has no attribute 'get'")
    ELSE Then(Gathered(<<
                  format_number(GetOr(mo, "total_market_cap_usd", JNum(0))),
                  format_percentage(GetOr(mo, "market_cap_change_24h",
                                          JNum(0))),
                  FormatFloat(GetOr(mo, "btc_dominance", JNum(0)), FALSE)>>),
              LAMBDA text :
              Ok(<<OVERVIEW_TITLE,
                   "Total Cap: " \o text[1],
                   "24h Change: " \o text[2],
                   "BTC Dom: " \o text[3] \o "%",
                   "">>))

OverviewSection(mo) ==
    IF ~Truthy(mo) THEN Ok(<<>>)
    ELSE IF mo.t # "obj"
    THEN Raise("'" \o PyTypeName(mo) \o "' object has no attribute 'get'")
    ELSE Then(Gathered(<<
                  format_number(GetOr(mo, "total_market_cap_usd", JNum(0))),
                  format_percentage(GetOr(mo, "market_cap_change_24h",
                                          JNum(0))),
                  FormatFloat(GetOr(mo, "btc_dominance", JNum(0)), FALSE)>>),
              LAMBDA text :
              Ok(<<OVERVIEW_TITLE,
                   "Total Cap: " \o text[1],
                   "24h Change: " \o text[2],
                   "BTC Dom: " \o text[3] \o "%",
                   "">>))

SentimentSection(fg) ==
    IF ~Truthy(fg) THEN Ok(<<>>)
    ELSE Then(Subscript(fg, "value"), LAMBDA value :
         Then(get_fear_greed_emoji(value), LAMBDA fg_emoji :
         Then(Subscript(fg, "classification"), LAMBDA classification :
              Ok(<<SENTIMENT_TITLE,
                   fg_emoji \o " Fear & Greed: " \o PyStr(value) \o "/100",
                   PyStr(classification),
                   "">>))))

\* one line of the movers section, for the gainer or for the loser
MoverLine(medal, coin) ==
    IF coin.t # "obj"
    THEN Raise("'" \o PyTypeName(coin) \o "' object has no attribute 'get'")
    ELSE Then(Slice(GetOr(coin, "name", JStr("Unknown")), NAME_LIMIT),
              LAMBDA name :
         Then(upper(GetOr(coin, "symbol", JStr(""))), LAMBDA symbol :
         Then(format_percentage(
                  GetOr(coin, "price_change_percentage_24h", JNum(0))),
              LAMBDA change :
              Ok(<<medal \o " " \o PyStr(name) \o " (" \o symbol \o ") "
                   \o change>>))))

MoversSection(g, l) ==
    IF ~(Truthy(g) \/ Truthy(l)) THEN Ok(<<>>)
    ELSE Then(IF Truthy(g) THEN MoverLine("(1st)", g) ELSE Ok(<<>>),
              LAMBDA gainer_line :
         Then(IF Truthy(l) THEN MoverLine("(3rd)", l) ELSE Ok(<<>>),
              LAMBDA loser_line :
              Ok(<<MOVERS_TITLE>> \o gainer_line \o loser_line \o <<"">>)))

TrendingLine(i, coin) ==
    IF coin.t # "obj"
    THEN Raise("'" \o PyTypeName(coin) \o "' object has no attribute 'get'")
    ELSE LET rank == GetOr(coin, "market_cap_rank", JNull)
             rank_text == IF Truthy(rank) THEN "#" \o PyStr(rank) ELSE ""
         IN  Then(Slice(GetOr(coin, "name", JStr("Unknown")),
                        TRENDING_NAME_LIMIT),
                  LAMBDA name :
             Then(upper(GetOr(coin, "symbol", JStr(""))), LAMBDA symbol :
                  Ok(ToString(i) \o ". " \o PyStr(name) \o " (" \o symbol
                     \o ") " \o rank_text)))

TrendingSection(tr) ==
    IF ~Truthy(tr) THEN Ok(<<>>)
    ELSE Then(Slice(tr, TRENDING_SHOWN), LAMBDA top :
         Then(Iterate(top), LAMBDA shown :
         Then(Gathered([i \in 1..Len(shown) |-> TrendingLine(i, shown[i])]),
              LAMBDA ls : Ok(<<TRENDING_TITLE>> \o ls \o <<"">>))))

DefiSection(hd) ==
    IF ~Truthy(hd) THEN Ok(<<>>)
    ELSE Then(Index0(hd), LAMBDA top_defi :
         IF top_defi.t # "obj"
         THEN Raise("'" \o PyTypeName(top_defi)
                    \o "' object has no attribute 'get'")
         ELSE Then(Gathered(<<
                       format_number(GetOr(top_defi, "tvl", JNum(0))),
                       format_percentage(GetOr(top_defi, "change_1d",
                                               JNum(0))),
                       Slice(GetOr(top_defi, "category", JStr("DeFi")),
                             CATEGORY_LIMIT),
                       Slice(GetOr(top_defi, "name", JStr("Unknown")),
                             NAME_LIMIT)>>),
                   LAMBDA field :
                   Ok(<<DEFI_TITLE,
                        PyStr(field[4]),
                        "TVL: " \o field[1] \o " " \o field[2],
                        PyStr(field[3]),
                        "">>)))

\* message_parts with the sentiment section placed before the overview
message_parts_SentimentFirst(mo, g, l, tr, hd, fg, btc, time) ==
    Then(Gathered(<<BitcoinSection(btc), OverviewSection(mo),
                    SentimentSection(fg), MoversSection(g, l),
                    TrendingSection(tr), DefiSection(hd)>>),
         LAMBDA section :
         Ok(HeaderLines(time) \o section[1] \o section[3] \o section[2]
            \o section[4] \o section[5] \o section[6] \o FooterLines))

\* the body of the try block after the six fetches: message_parts
message_parts(mo, g, l, tr, hd, fg, btc, time) ==
    Then(Gathered(<<BitcoinSection(btc), OverviewSection(mo),
                    SentimentSection(fg), MoversSection(g, l),
                    TrendingSection(tr), DefiSection(hd)>>),
         LAMBDA section :
         Ok(HeaderLines(time) \o section[1] \o section[2] \o section[3]
            \o section[4] \o section[5] \o section[6] \o FooterLines))

\* _create_error_message without the [:50] of the error text
_create_error_message_Untruncated(error) ==
    <<"*MARKET DATA ERROR*",
      "",
      "Unable to fetch data",
      "Error: " \o error \o "...",
      "",
      "Try again in a few moments",
      "*" \o BOT_NAME \o "* v" \o BOT_VERSION>>

_create_error_message(error) ==
    <<"*MARKET DATA ERROR*",
      "",
      "Unable to fetch data",
      "Error: " \o Take(error, ERROR_LIMIT) \o "...",
      "",
      "Try again in a few moments",
      "*" \o BOT_NAME \o "* v" \o BOT_VERSION>>

(***************************************************************************)
(* Provider payloads of the composition specification                      *)
(***************************************************************************)
Coin(name, symbol, cap, chg) ==
    JObj(<<"name", "symbol", "market_cap", "price_change_percentage_24h">>,
         [name |-> name, symbol |-> JStr(symbol), market_cap |-> cap,
          price_change_percentage_24h |-> chg])

Protocol(name, category, tvl, chg) ==
    JObj(<<"name", "category", "tvl", "change_1d">>,
         [name |-> JStr(name), category |-> category, tvl |-> tvl,
          change_1d |-> chg])

TrendingItem(name, symbol, rank) ==
    JObj(<<"item">>,
         [item |-> JObj(<<"name", "symbol", "market_cap_rank", "price_btc">>,
                        [name |-> JStr(name), symbol |-> symbol,
                         market_cap_rank |-> rank, price_btc |-> JNum(1)])])

GlobalData(dominance) ==
    JObj(<<"data">>, [data |-> JObj(
        <<"active_cryptocurrencies", "total_market_cap", "total_volume",
          "market_cap_percentage", "market_cap_change_percentage_24h_usd">>,
        [active_cryptocurrencies |-> JNum(10000),
         total_market_cap |-> JObj(<<"usd">>, [usd |-> JBig(2000, 0)]),
         total_volume |-> JObj(<<"usd">>, [usd |-> JNum(90000000)]),
         market_cap_percentage |-> JObj(<<"btc">>, [btc |-> dominance]),
         market_cap_change_percentage_24h_usd |-> JNum(-2)])])

OverviewBodies ==
    { GlobalData(JNum(52)),                \* every field present
      JObj(<<"data">>, [data |-> EmptyDict]),          \* every field omitted
      JObj(<<"status">>, [status |-> JStr("error")]),    \* no 'data' key
      JObj(<<"data">>, [data |-> JNull]),              \* 'data' is null
      GlobalData(JNull),                   \* the BTC share is null
      JNum(5) }                            \* the body is a number

MoversBodies ==
    { EmptyList,
      JArr(<<Coin(JStr("Bitcoin"), "btc", JNum(900000000), JNum(2)),
             Coin(JStr("Ethereum"), "eth", JNum(300000000), JNum(-3)),
             Coin(JStr("Tether"), "usdt", JNum(100000000), JNull)>>),
      JArr(<<Coin(JStr("Dust"), "dst", JNum(1000000), JNum(40)),
             Coin(JStr("Mote"), "mot", JNull, JNum(7))>>),
      JArr(<<Coin(JNull, "nul", JNum(5000000), JNum(1))>>),
      JNum(5) }

TrendingBodies ==
    { JObj(<<"coins">>, [coins |-> EmptyList]),
      JObj(<<"coins">>, [coins |-> JArr(<<TrendingItem("Pepe", JStr("pepe"), JNum(40)),
                             TrendingItem("Bonk", JStr("bonk"), JNull),
                             TrendingItem("Sui", JStr("sui"), JNum(12)),
                             TrendingItem("Aptos", JStr("apt"), JNum(30)),
                             TrendingItem("Celestia", JStr("tia"), JNum(55)),
                             TrendingItem("Sei", JStr("sei"), JNum(60))>>)]),
      JObj(<<"coins">>, [coins |-> JArr(<<TrendingItem("Void", JNull, JNum(1))>>)]),
      JObj(<<"coins">>, [coins |-> EmptyDict]) }

DefiBodies ==
    { EmptyList,
      JArr(<<Protocol("Lido", JStr("Liquid Staking"), JNum(30000000), JNum(1)),
             Protocol("Aave", JStr("Lending"), JNum(10000000), JNum(4)),
             Protocol("Tiny", JStr("Dexes"), JNum(1000000), JNum(90))>>),
      JArr(<<Protocol("Tiny", JStr("Dexes"), JNum(1000000), JNum(90)),
             Protocol("Idle", JStr("Yield"), JNum(8000000), JNull)>>),
      JStr("error") }

SentimentReading(value) ==
    JObj(<<"data">>,
         [data |-> JArr(<<JObj(<<"value", "value_classification", "timestamp">>,
                               [value |-> value,
                                value_classification |-> JStr("Greed"),
                                timestamp |-> JStr("1700000000")])>>)])

SentimentBodies ==
    { SentimentReading(JStr("75")),
      JObj(<<"data">>, [data |-> EmptyList]),
      JObj(<<"data">>, [data |-> JArr(<<EmptyDict>>)]),
      SentimentReading(JStr("n/a")),
      SentimentReading(JStr(" 7_5\n")),
      JObj(<<"data">>, [data |-> JStr("abc")]) }

BitcoinBodies ==
    { JObj(<<"bitcoin">>,
           [bitcoin |-> JObj(<<"usd", "usd_market_cap", "usd_24h_change">>,
                             [usd |-> JNum(65000), usd_24h_change |-> JNum(2),
                              usd_market_cap |-> JBig(1300, 0)])]),
      JObj(<<"bitcoin">>, [bitcoin |-> EmptyDict]),
      JObj(<<"status">>, [status |-> JStr("error")]),
      JObj(<<"bitcoin">>,
           [bitcoin |-> JObj(<<"usd", "usd_market_cap", "usd_24h_change">>,
                             [usd |-> JNull, usd_24h_change |-> JNum(2),
                              usd_market_cap |-> JBig(1300, 0)])]),
      JStr("xbitcoinx") }

Times == {"2024-01-01 00:00 UTC", "2024-06-30 23:59 UTC"}

Adapters == {"overview", "movers", "trending", "defi", "sentiment", "bitcoin"}

\* the outcomes of the single GET of an adapter
Responses(adapter, bodies) ==
    {[adapter |-> adapter, kind |-> k, body |-> JNull] : k \in FailureKinds}
    \cup {[adapter |-> adapter, kind |-> "ok", body |-> b] : b \in bodies}

NoRequest == [adapter |-> "none", kind |-> "none", body |-> JNull]

(***************************************************************************)
(* The global bot_instance, the updates of the commands and the replies    *)
(* of the handlers, and the initial value of the state they work on        *)
(***************************************************************************)
MaxRequests == 2

Requests == 1..MaxRequests

\* AlphaScopeBot.__init__ at the time now: the fetcher of
\* CryptoDataFetcher.__init__ with its base URLs and its session with the
\* header, the formatter (no attributes) and the start time
AlphaScopeBot(now) ==
    [fetcher |->
        [coingecko_base |-> "https://api.coingecko.com/api/v3",
         defillama_base |-> "https://api.llama.fi",
         session |->
            [headers |-> [User_Agent |-> BOT_NAME \o "/" \o BOT_VERSION]]],
     formatter |-> "MessageFormatter",
     start_time |-> now]

\* datetime.now(timezone.utc) when the module is loaded: the seconds since
\* the start of the day 2024-01-01
START_SECONDS == 600

bot_instance == AlphaScopeBot(START_SECONDS)

\* no update is being handled
NoUpdate == [message |-> JNull, callback_query |-> JNull, command |-> ""]

\* the chats that write to the bot
Chats == {1, 2}

\* the user who writes in a chat
User(chat) == [first_name |-> "User" \o ToString(chat)]

\* the update of a command message written in a chat
CommandUpdate(command, chat) ==
    [message |-> [chat_id |-> chat, from_user |-> User(chat)],
     callback_query |-> JNull, command |-> command]

\* message.reply_text(text): the text is sent to the chat of the message;
\* on None the attribute lookup raises
reply_text(message, text) ==
    IF message = JNull
    THEN Raise("'NoneType' object has no attribute 'reply_text'")
    ELSE Ok(<<[chat |-> message.chat_id, text |-> text]>>)

\* the /alpha commands a behaviour of the composition handles
MaxReplies == 1

\* the texts the handlers and concurrent summaries of a behaviour send
MaxSent == 2

\* the local variables of an activation of create_market_summary before
\* its first assignment
NewFrame ==
    [market_overview |-> EmptyDict, gainer |-> JNull, loser |-> JNull,
     trending |-> EmptyList, hot_defi |-> EmptyList, fear_greed |-> JNull,
     btc_data |-> JNull]

\* a request that no handler has started on
IdleRequest == [pc |-> "idle", update |-> NoUpdate, received |-> <<>>,
                time |-> "", returned |-> <<>>]

ExtraInit ==
    /\ arg = JNull
    /\ update = NoUpdate
    /\ delivered = <<>>
    /\ requests = [r \in Requests |-> IdleRequest]
    /\ frames = [f \in Requests |-> NewFrame]
    /\ instance = bot_instance

(***************************************************************************)
(* The composition as a state machine: one step per provider call, in the  *)
(* order of the source, then the assembly of the text.  An exception       *)
(* raised by a step is caught by the except clause of                      *)
(* create_market_summary, which returns the fallback text.                 *)
(***************************************************************************)
Init ==
    /\ pc = "idle"
    /\ http = NoRequest
    /\ calls = [a \in Adapters |-> 0]
    /\ market_overview = EmptyDict
    /\ gainer = JNull
    /\ loser = JNull
    /\ trending = EmptyList
    /\ hot_defi = EmptyList
    /\ fear_greed = JNull
    /\ btc_data = JNull
    /\ current_time = ""
    /\ caught = JNull
    /\ result = <<>>
    /\ ExtraInit

\* alpha_command is called with the /alpha message of a chat: the typing
\* indicator (no text), then the call of create_market_summary
Start ==
    /\ pc = "idle"
    /\ Len(delivered) < MaxReplies
    /\ \E chat \in Chats : update' = CommandUpdate("/alpha", chat)
    /\ pc' = "overview"
    /\ http' = NoRequest
    /\ calls' = [a \in Adapters |-> 0]
    /\ market_overview' = EmptyDict
    /\ gainer' = JNull
    /\ loser' = JNull
    /\ trending' = EmptyList
    /\ hot_defi' = EmptyList
    /\ fear_greed' = JNull
    /\ btc_data' = JNull
    /\ current_time' = ""
    /\ caught' = JNull
    /\ result' = <<>>
    /\ UNCHANGED <<arg, delivered, requests, frames, instance>>

\* the except clause: log and return _create_error_message(str(e))
Except(err) ==
    /\ caught' = JStr(err)
    /\ result' = _create_error_message(err)
    /\ pc' = "done"

FetchOverview ==
    /\ pc = "overview"
    /\ \E resp \in Responses("overview", OverviewBodies) :
         LET r == get_market_overview(resp)
         IN  /\ http' = resp
             /\ calls' = [calls EXCEPT !["overview"] = @ + 1]
             /\ IF r.raised
                THEN Except(r.err) /\ UNCHANGED market_overview
                ELSE /\ market_overview' = r.val
                     /\ pc' = "movers"
                     /\ UNCHANGED <<caught, result>>
    /\ UNCHANGED <<gainer, loser, trending, hot_defi, fear_greed, btc_data,
                   current_time>>
    /\ UNCHANGED extra

FetchMovers ==
    /\ pc = "movers"
    /\ \E resp \in Responses("movers", MoversBodies) :
         LET r == get_top_movers(resp)
         IN  /\ http' = resp
             /\ calls' = [calls EXCEPT !["movers"] = @ + 1]
             /\ IF r.raised
                THEN Except(r.err) /\ UNCHANGED <<gainer, loser>>
                ELSE /\ gainer' = r.val[1]
                     /\ loser' = r.val[2]
                     /\ pc' = "trending"
                     /\ UNCHANGED <<caught, result>>
    /\ UNCHANGED <<market_overview, trending, hot_defi, fear_greed, btc_data,
                   current_time>>
    /\ UNCHANGED extra

FetchTrending ==
    /\ pc = "trending"
    /\ \E resp \in Responses("trending", TrendingBodies) :
         LET r == get_trending_coins(resp)
         IN  /\ http' = resp
             /\ calls' = [calls EXCEPT !["trending"] = @ + 1]
             /\ IF r.raised
                THEN Except(r.err) /\ UNCHANGED trending
                ELSE /\ trending' = r.val
                     /\ pc' = "defi"
                     /\ UNCHANGED <<caught, result>>
    /\ UNCHANGED <<market_overview, gainer, loser, hot_defi, fear_greed,
                   btc_data, current_time>>
    /\ UNCHANGED extra

FetchDefi ==
    /\ pc = "defi"
    /\ \E resp \in Responses("defi", DefiBodies) :
         LET r == get_hot_defi_projects(resp)
         IN  /\ http' = resp
             /\ calls' = [calls EXCEPT !["defi"] = @ + 1]
             /\ IF r.raised
                THEN Except(r.err) /\ UNCHANGED hot_defi
                ELSE /\ hot_defi' = r.val
                     /\ pc' = "sentiment"
                     /\ UNCHANGED <<caught, result>>
    /\ UNCHANGED <<market_overview, gainer, loser, trending, fear_greed,
                   btc_data, current_time>>
    /\ UNCHANGED extra

FetchSentiment ==
    /\ pc = "sentiment"
    /\ \E resp \in Responses("sentiment", SentimentBodies) :
         LET r == get_fear_greed_index(resp)
         IN  /\ http' = resp
             /\ calls' = [calls EXCEPT !["sentiment"] = @ + 1]
             /\ IF r.raised
                THEN Except(r.err) /\ UNCHANGED fear_greed
                ELSE /\ fear_greed' = r.val
                     /\ pc' = "bitcoin"
                     /\ UNCHANGED <<caught, result>>
    /\ UNCHANGED <<market_overview, gainer, loser, trending, hot_defi,
                   btc_data, current_time>>
    /\ UNCHANGED extra

FetchBitcoin ==
    /\ pc = "bitcoin"
    /\ \E resp \in Responses("bitcoin", BitcoinBodies) :
         LET r == get_bitcoin_price(resp)
         IN  /\ http' = resp
             /\ calls' = [calls EXCEPT !["bitcoin"] = @ + 1]
             /\ IF r.raised
                THEN Except(r.err) /\ UNCHANGED btc_data
                ELSE /\ btc_data' = r.val
                     /\ pc' = "compose"
                     /\ UNCHANGED <<caught, result>>
    /\ UNCHANGED <<market_overview, gainer, loser, trending, hot_defi,
                   fear_greed, current_time>>
    /\ UNCHANGED extra

\* the rest of the try block: the timestamp, the sections, the join
Compose ==
    /\ pc = "compose"
    /\ \E time \in Times :
         LET r == message_parts(market_overview, gainer, loser, trending,
                                hot_defi, fear_greed, btc_data, time)
         IN  /\ current_time' = time
             /\ IF r.raised
                THEN Except(r.err)
                ELSE /\ result' = r.val
                     /\ pc' = "done"
                     /\ UNCHANGED caught
    /\ UNCHANGED <<http, calls, locals>>
    /\ UNCHANGED extra

\* alpha_command replies to the message with the returned text and ends
Reply ==
    /\ pc = "done"
    /\ delivered' = delivered \o reply_text(update.message, result).val
    /\ pc' = "idle"
    /\ UNCHANGED <<http, calls, locals, current_time, caught, result>>
    /\ UNCHANGED <<arg, update, requests, frames, instance>>

Next ==
    \/ Start
    \/ FetchOverview
    \/ FetchMovers
    \/ FetchTrending
    \/ FetchDefi
    \/ FetchSentiment
    \/ FetchBitcoin
    \/ Compose
    \/ Reply

Spec == Init /\ [][Next]_vars

(***************************************************************************)
(* Reading a returned text                                                 *)
(***************************************************************************)
HasPrefix(line, prefix) ==
    Len(line) >= Len(prefix) /\ SubSeq(line, 1, Len(prefix)) = prefix

\* the sections of a report, in the order of the specification, each named
\* by the text its first line starts with
SectionMarks ==
    <<BTC_TITLE, OVERVIEW_TITLE, SENTIMENT_TITLE, MOVERS_TITLE,
      TRENDING_TITLE, DEFI_TITLE>>

HasSection(text, k) ==
    \E i \in 1..Len(text) : HasPrefix(text[i], SectionMarks[k])

SectionPos(text, k) ==
    CHOOSE i \in 1..Len(text) : HasPrefix(text[i], SectionMarks[k])

\* the data of section k as the composer holds it
SectionData(k) ==
    CASE k = 1 -> Truthy(btc_data)
      [] k = 2 -> Truthy(market_overview)
      [] k = 3 -> Truthy(fear_greed)
      [] k = 4 -> Truthy(gainer) \/ Truthy(loser)
      [] k = 5 -> Truthy(trending)
      [] k = 6 -> Truthy(hot_defi)

Returned == pc = "done"

IsFallback(text) == Len(text) > 0 /\ text[1] = "*MARKET DATA ERROR*"

\* C1: in every returned report each of the six sections appears if and
\* only if the data of its own adapter is present, whatever the other
\* adapters delivered
C1_SectionIffOwnData ==
    Returned => \A k \in 1..6 : HasSection(result, k) <=> SectionData(k)

\* C2: when all six adapters have returned their empty result, the
\* composition returns, without an exception, the non-empty text made of the
\* header lines followed by the footer lines and nothing else
AllEmpty ==
    /\ market_overview = EmptyDict
    /\ gainer = JNull /\ loser = JNull
    /\ trending = EmptyList
    /\ hot_defi = EmptyList
    /\ fear_greed = JNull
    /\ btc_data = JNull

C2_AllEmptyHeaderFooter ==
    [][(pc = "compose" /\ AllEmpty /\ pc' # pc)
        => /\ pc' = "done"
           /\ caught' = JNull
           /\ result' # <<>>
           /\ Len(result') = 6
           /\ SubSeq(result', 1, 3)
                = <<HEADER_TITLE, current_time', "">>
           /\ SubSeq(result', 4, 6)
                = <<FOOTER_RULE, "*AlphaScope Bot* v3.1.1",
                    "Use /menu for more options">>]_vars

C2_Witness ==
    /\ Returned /\ AllEmpty /\ caught = JNull
    /\ \A a \in Adapters : calls[a] = 1
    /\ Len(result) = 6

\* C3: an exception raised inside the composition never leaves it: the
\* call returns the fallback text, whose error line embeds the first 50
\* characters at most of the text of the exception, followed by the
\* instruction to try again
EmbeddedError(text) == SubSeq(text[4], 8, Len(text[4]) - 3)

C3_FallbackTruncated ==
    caught # JNull
        => /\ pc \in {"done", "idle"}
           /\ Len(result) = 7
           /\ IsFallback(result)
           /\ HasPrefix(result[4], "Error: ")
           /\ Len(EmbeddedError(result)) <= 50
           /\ HasPrefix(caught.v, EmbeddedError(result))
           /\ Len(EmbeddedError(result)) < 50
                => EmbeddedError(result) = caught.v
           /\ result[6] = "Try again in a few moments"

C3_Witness ==
    /\ Returned /\ caught # JNull
    /\ Len(caught.v) > 50
    /\ Len(EmbeddedError(result)) = 50

\* C4: an adapter whose request times out, fails to connect, gets a
\* non-2xx status or a body that is not JSON returns its empty result and
\* raises nothing to the composition, which goes on to its next step
C4_FailureGivesEmpty ==
    [][(calls' # calls /\ http'.kind \in FailureKinds)
        => /\ caught' = JNull
           /\ pc = "overview"
                => (pc' = "movers" /\ market_overview' = EmptyDict)
           /\ pc = "movers"
                => (pc' = "trending" /\ gainer' = JNull /\ loser' = JNull)
           /\ pc = "trending"
                => (pc' = "defi" /\ trending' = EmptyList)
           /\ pc = "defi"
                => (pc' = "sentiment" /\ hot_defi' = EmptyList)
           /\ pc = "sentiment"
                => (pc' = "bitcoin" /\ fear_greed' = JNull)
           /\ pc = "bitcoin"
                => (pc' = "compose" /\ btc_data' = JNull)]_vars

C4_Witness ==
    /\ pc = "compose"
    /\ http.adapter = "bitcoin" /\ http.kind = "JSONDecodeError"
    /\ btc_data = JNull /\ caught = JNull

\* C5: a monetary or percentage field that the provider omits is absent
\* from the record of the adapter, never a zero, and the report then leaves
\* the section out
OmitsField(body, outer, field) ==
    /\ body.t = "obj" /\ outer \in DOMAIN body.v
    /\ body.v[outer].t = "obj"
    /\ field \notin DOMAIN body.v[outer].v

C5_OmittedFieldAbsent ==
    /\ (pc = "compose" /\ http.adapter = "bitcoin" /\ http.kind = "ok"
        /\ OmitsField(http.body, "bitcoin", "usd"))
            => (btc_data = JNull \/ btc_data.v["price"] = JNull)
    /\ (pc = "movers" /\ http.adapter = "overview" /\ http.kind = "ok"
        /\ OmitsField(http.body, "data", "total_market_cap"))
            => (market_overview = EmptyDict
                \/ market_overview.v["total_market_cap_usd"] = JNull)
    /\ (Returned /\ caught = JNull /\ http.adapter = "bitcoin"
        /\ http.kind = "ok" /\ OmitsField(http.body, "bitcoin", "usd"))
            => ~HasSection(result, 1)

\* C6: in a report returned without the fallback the sections that are
\* present stand in the order Bitcoin quote, market overview, sentiment, top
\* movers, trending, top DeFi, between the header lines, which come first,
\* and the footer lines, which come last
C6_FixedSectionOrder ==
    (Returned /\ caught = JNull)
        => /\ result[1] = HEADER_TITLE
           /\ result[2] = current_time
           /\ result[Len(result) - 2] = FOOTER_RULE
           /\ \A k \in 1..6 :
                HasSection(result, k)
                    => /\ SectionPos(result, k) > 3
                       /\ SectionPos(result, k) < Len(result) - 2
                       /\ \A j \in 1..6 :
                            (j < k /\ HasSection(result, j))
                                => SectionPos(result, j)
                                     < SectionPos(result, k)

C6_Witness ==
    /\ Returned /\ caught = JNull
    /\ HasSection(result, 1) /\ HasSection(result, 3)
    /\ HasSection(result, 6) /\ ~HasSection(result, 2)
    /\ ~HasSection(result, 5)

(***************************************************************************)
(* get_top_movers on every market listing of at most MaxCoins entries.     *)
(* The entry at position i is named c<i>; its market cap and its 24h       *)
(* change are numbers, null, or left out of the entry.                     *)
(***************************************************************************)
MaxCoins == 3

Omitted == [t |-> "omitted"]

CapChoices ==
    {Omitted, JNull, JNum(1000000), JNum(1000001), JBig(3, 0)}

ChangeChoices == {Omitted, JNull, JNum(-2), JNum(0), JNum(5)}

\* a JSON object with the two given keys present unless Omitted
ListedEntry(name, amtKey, amt, pctKey, pct) ==
    JObj(<<"name", "symbol">>
            \o (IF amt = Omitted THEN <<>> ELSE <<amtKey>>)
            \o (IF pct = Omitted THEN <<>> ELSE <<pctKey>>),
         [k \in {"name", "symbol"}
                \cup (IF amt = Omitted THEN {} ELSE {amtKey})
                \cup (IF pct = Omitted THEN {} ELSE {pctKey}) |->
            CASE k = "name" -> JStr(name)
              [] k = "symbol" -> JStr(name)
              [] k = amtKey -> amt
              [] k = pctKey -> pct])

MoverListing(n, caps, chgs) ==
    [i \in 1..n |->
        ListedEntry("c" \o ToString(i), "market_cap", caps[i],
                    "price_change_percentage_24h", chgs[i])]

InitMovers ==
    /\ pc = "movers_call"
    /\ \E n \in 0..MaxCoins :
         \E caps \in [1..n -> CapChoices], chgs \in [1..n -> ChangeChoices] :
            http = [adapter |-> "movers", kind |-> "ok",
                    body |-> JArr(MoverListing(n, caps, chgs))]
    /\ calls = [a \in Adapters |-> 0]
    /\ market_overview = EmptyDict
    /\ gainer = JNull
    /\ loser = JNull
    /\ trending = EmptyList
    /\ hot_defi = EmptyList
    /\ fear_greed = JNull
    /\ btc_data = JNull
    /\ current_time = ""
    /\ caught = JNull
    /\ result = <<>>
    /\ ExtraInit

\* gainer, loser = self.fetcher.get_top_movers() on the listing received
CallTopMovers ==
    /\ pc = "movers_call"
    /\ LET r == get_top_movers(http)
       IN  /\ calls' = [calls EXCEPT !["movers"] = @ + 1]
           /\ pc' = "movers_ret"
           /\ IF r.raised
              THEN caught' = JStr(r.err) /\ UNCHANGED <<gainer, loser>>
              ELSE /\ gainer' = r.val[1]
                   /\ loser' = r.val[2]
                   /\ UNCHANGED caught
    /\ UNCHANGED <<http, market_overview, trending, hot_defi, fear_greed,
                   btc_data, current_time, result>>
    /\ UNCHANGED extra

NextMovers == CallTopMovers

SpecMovers == InitMovers /\ [][NextMovers]_vars

\* the listing received, and the eligibility of the specification stated
\* on it: a defined change and an amount above one million
Listing == http.body.v

Defined(entry, key) == key \in DOMAIN entry.v /\ IsNumber(entry.v[key])

EligibleIdx(pctKey, amtKey) ==
    {i \in 1..Len(Listing) :
        /\ Defined(Listing[i], pctKey)
        /\ Defined(Listing[i], amtKey)
        /\ \/ Listing[i].v[amtKey].t = "big" /\ Listing[i].v[amtKey].hi > 0
           \/ Listing[i].v[amtKey].t = "num" /\ Listing[i].v[amtKey].v > 1000000}

EligibleCoins == EligibleIdx("price_change_percentage_24h", "market_cap")

ChangeOf(coin) == coin.v["price_change_percentage_24h"].v

CapOf(coin) == coin.v["market_cap"]

\* cap a is at least cap b
AtLeast(a, b) == ~NumLess(a, b)

MoversReturned == pc = "movers_ret" /\ caught = JNull

\* C7: get_top_movers returns only eligible entries of the listing (a
\* defined change and a market cap strictly above 1,000,000): both absent
\* when no entry is eligible, both present otherwise
C7_MoversAreEligible ==
    MoversReturned
        => /\ EligibleCoins = {} => (gainer = JNull /\ loser = JNull)
           /\ EligibleCoins # {}
                => /\ \E i \in EligibleCoins : gainer = Listing[i]
                   /\ \E i \in EligibleCoins : loser = Listing[i]

\* an entry at exactly 1,000,000 with the highest change is passed over and
\* the gainer returned has a change of exactly 0
C7_Witness ==
    /\ MoversReturned
    /\ gainer # JNull /\ ChangeOf(gainer) = 0
    /\ \E i \in 1..Len(Listing) :
         /\ Defined(Listing[i], "market_cap")
         /\ CapOf(Listing[i]) = JNum(1000000)
         /\ Defined(Listing[i], "price_change_percentage_24h")
         /\ ChangeOf(Listing[i]) = 5

\* C8: the gainer has a change at least that of every eligible entry, the
\* loser a change at most that of every eligible entry, and an entry that
\* alone holds the highest change is the gainer wherever it stands
C8_MoversAreExtremes ==
    (MoversReturned /\ EligibleCoins # {})
        => \A i \in EligibleCoins :
             /\ ChangeOf(gainer) >= ChangeOf(Listing[i])
             /\ ChangeOf(loser) <= ChangeOf(Listing[i])
             /\ (\A j \in EligibleCoins \ {i} :
                    ChangeOf(Listing[j]) < ChangeOf(Listing[i]))
                  => gainer = Listing[i]

C8_Witness ==
    /\ MoversReturned
    /\ Cardinality(EligibleCoins) >= 3
    /\ gainer = Listing[1]
    /\ loser = Listing[2]
    /\ ChangeOf(gainer) > ChangeOf(Listing[3])
    /\ ChangeOf(Listing[3]) > ChangeOf(loser)

\* the eligible entries that share the highest change, and a listing in
\* market-cap-descending order
MaxTied ==
    {i \in EligibleCoins :
        \A j \in EligibleCoins : ChangeOf(Listing[j]) <= ChangeOf(Listing[i])}

CapDescending ==
    \A i, j \in 1..Len(Listing) :
        (i < j /\ Defined(Listing[i], "market_cap")
               /\ Defined(Listing[j], "market_cap"))
            => AtLeast(CapOf(Listing[i]), CapOf(Listing[j]))

First(idx) == CHOOSE i \in idx : \A j \in idx : i <= j

Last(idx) == CHOOSE i \in idx : \A j \in idx : i >= j

\* C9 as stated: among the eligible entries that share the highest change
\* the gainer is the first of the input order, the one of higher market cap
C9_TieHigherCapWins ==
    (MoversReturned /\ CapDescending /\ Cardinality(MaxTied) >= 2)
        => /\ gainer = Listing[First(MaxTied)]
           /\ \A i \in MaxTied : AtLeast(CapOf(gainer), CapOf(Listing[i]))

\* C9 amended: among the eligible entries that share the highest change the
\* gainer is the last of the input order, the one of lowest market cap in a
\* market-cap-descending listing
C9_TieLastWins ==
    (MoversReturned /\ CapDescending /\ Cardinality(MaxTied) >= 2)
        => /\ gainer = Listing[Last(MaxTied)]
           /\ \A i \in MaxTied : AtLeast(CapOf(Listing[i]), CapOf(gainer))

C9_Witness ==
    /\ MoversReturned /\ CapDescending
    /\ Cardinality(MaxTied) >= 2
    /\ CapOf(Listing[First(MaxTied)]) = JBig(3, 0)
    /\ CapOf(Listing[Last(MaxTied)]) = JNum(1000001)
    /\ gainer = Listing[Last(MaxTied)]

(***************************************************************************)
(* get_hot_defi_projects on every protocol listing of at most              *)
(* MaxProtocols entries.  The entry at position i is named p<i>.           *)
(***************************************************************************)
MaxProtocols == 6

\* the TVL and the 24h TVL change of a listed protocol
ProtocolChoices ==
    { <<JNum(1000000), JNum(9)>>,
      <<JNum(1000001), JNum(1)>>,
      <<JNum(5000000), JNum(2)>>,
      <<JBig(5, 0), JNum(-4)>>,
      <<JNum(5000000), JNull>>,
      <<Omitted, JNum(3)>> }

ProtocolListing(n, c) ==
    [i \in 1..n |->
        ListedEntry("p" \o ToString(i), "tvl", c[i][1], "change_1d", c[i][2])]

InitDefi ==
    /\ pc = "defi_call"
    /\ \E n \in 0..MaxProtocols :
         \E c \in [1..n -> ProtocolChoices] :
            http = [adapter |-> "defi", kind |-> "ok",
                    body |-> JArr(ProtocolListing(n, c))]
    /\ calls = [a \in Adapters |-> 0]
    /\ market_overview = EmptyDict
    /\ gainer = JNull
    /\ loser = JNull
    /\ trending = EmptyList
    /\ hot_defi = EmptyList
    /\ fear_greed = JNull
    /\ btc_data = JNull
    /\ current_time = ""
    /\ caught = JNull
    /\ result = <<>>
    /\ ExtraInit

\* hot_defi = self.fetcher.get_hot_defi_projects() on the listing received
CallHotDefi ==
    /\ pc = "defi_call"
    /\ LET r == get_hot_defi_projects(http)
       IN  /\ calls' = [calls EXCEPT !["defi"] = @ + 1]
           /\ pc' = "defi_ret"
           /\ IF r.raised
              THEN caught' = JStr(r.err) /\ UNCHANGED hot_defi
              ELSE hot_defi' = r.val /\ UNCHANGED caught
    /\ UNCHANGED <<http, market_overview, gainer, loser, trending,
                   fear_greed, btc_data, current_time, result>>
    /\ UNCHANGED extra

NextDefi == CallHotDefi

SpecDefi == InitDefi /\ [][NextDefi]_vars

EligibleProtocols == EligibleIdx("change_1d", "tvl")

TvlChange(protocol) == protocol.v["change_1d"].v

DefiReturned == pc = "defi_ret" /\ caught = JNull

\* the positions of the listing that the returned list holds
ReturnedIdx ==
    {i \in 1..Len(Listing) :
        \E k \in 1..Len(hot_defi.v) : hot_defi.v[k] = Listing[i]}

\* C10: get_hot_defi_projects returns min(5, number of eligible protocols)
\* protocols, all eligible (a defined 24h change and a TVL strictly above
\* 1,000,000), in non-increasing order of 24h change, and no eligible
\* protocol left out has a change above that of a protocol returned
C10_HotDefiTopFive ==
    DefiReturned
        => /\ Len(hot_defi.v) <= 5
           /\ Len(hot_defi.v)
                = (IF Cardinality(EligibleProtocols) < 5
                   THEN Cardinality(EligibleProtocols) ELSE 5)
           /\ ReturnedIdx \subseteq EligibleProtocols
           /\ Cardinality(ReturnedIdx) = Len(hot_defi.v)
           /\ \A k \in 1..(Len(hot_defi.v) - 1) :
                TvlChange(hot_defi.v[k]) >= TvlChange(hot_defi.v[k + 1])
           /\ \A i \in EligibleProtocols \ ReturnedIdx :
                \A k \in 1..Len(hot_defi.v) :
                    TvlChange(Listing[i]) <= TvlChange(hot_defi.v[k])

C10_Witness ==
    /\ DefiReturned
    /\ Cardinality(EligibleProtocols) = 6
    /\ Len(hot_defi.v) = 5
    /\ TvlChange(hot_defi.v[1]) > TvlChange(hot_defi.v[5])
    /\ \E i \in EligibleProtocols \ ReturnedIdx :
         TvlChange(Listing[i]) < TvlChange(hot_defi.v[5])

(***************************************************************************)
(* The MessageFormatter on its own: the argument of one call is drawn in   *)
(* the initial state and the call stores the text it returns.              *)
(***************************************************************************)
MaxPct == 3

MaxOffset == 2

\* the values of the index: the provider publishes 0..100
SentimentValues == 0..100

\* the magnitude 10^(3k) + d, for k = 0 the magnitude |d|
Near(k, d) ==
    IF k = 0 THEN [hi |-> 0, lo |-> Abs(d)]
    ELSE IF k <= 2 THEN [hi |-> 0, lo |-> Pow10(3 * k) + d]
    ELSE IF d < 0 THEN [hi |-> Pow10(3 * k - 9) - 1, lo |-> BILLION + d]
    ELSE [hi |-> Pow10(3 * k - 9), lo |-> d]

\* the number sign * (10^(3k) + d) as a value of the model
Amount(sign, k, d) ==
    LET m == Near(k, d)
    IN  IF m.hi < 2 THEN JNum(sign * (m.hi * BILLION + m.lo))
        ELSE JBig(sign * m.hi, sign * m.lo)

Signs == {1, -1}

\* amounts whose quotient by 10^3, 10^6 or 10^12 lies half-way between two
\* hundredths
Halfway ==
    {JNum(1005), JNum(-1005), JNum(1015), JNum(1125), JNum(1005000),
     JBig(1005, 0), JBig(-1005, 0)}

TierIndex == 0..4

Offsets == (0 - MaxOffset)..MaxOffset

\* every variable of the composition at rest
IdleComposition ==
    /\ http = NoRequest
    /\ calls = [a \in Adapters |-> 0]
    /\ market_overview = EmptyDict
    /\ gainer = JNull
    /\ loser = JNull
    /\ trending = EmptyList
    /\ hot_defi = EmptyList
    /\ fear_greed = JNull
    /\ btc_data = JNull
    /\ current_time = ""
    /\ caught = JNull
    /\ result = <<>>

composition == <<http, calls, market_overview, gainer, loser, trending,
                 hot_defi, fear_greed, btc_data, current_time>>

InitFormat ==
    /\ \/ /\ pc = "emoji_call"
          /\ arg \in {JNum(v) : v \in SentimentValues} \cup {JStr("75")}
       \/ /\ pc = "pct_call"
          /\ arg \in {JNull} \cup {JNum(p) : p \in (0 - MaxPct)..MaxPct}
                      \cup {JBig(3, 0), JBig(-3, 0)}
       \/ /\ pc = "num_call"
          /\ \/ arg \in {JNull} \cup Halfway
             \/ \E sign \in Signs, k \in TierIndex, d \in Offsets :
                  arg = Amount(sign, k, d)
    /\ IdleComposition
    /\ update = NoUpdate
    /\ delivered = <<>>
    /\ requests = [r \in Requests |-> IdleRequest]
    /\ frames = [f \in Requests |-> NewFrame]
    /\ instance = bot_instance

\* self.formatter.get_fear_greed_emoji(value)
CallEmoji ==
    /\ pc = "emoji_call"
    /\ pc' = "emoji_ret"
    /\ LET r == get_fear_greed_emoji(arg)
       IN  IF r.raised
           THEN caught' = JStr(r.err) /\ UNCHANGED result
           ELSE result' = <<r.val>> /\ UNCHANGED caught
    /\ UNCHANGED <<composition, arg, update, delivered, requests, frames,
                   instance>>

\* self.formatter.format_percentage(pct)
CallPercentage ==
    /\ pc = "pct_call"
    /\ pc' = "pct_ret"
    /\ LET r == format_percentage(arg)
       IN  IF r.raised
           THEN caught' = JStr(r.err) /\ UNCHANGED result
           ELSE result' = <<r.val>> /\ UNCHANGED caught
    /\ UNCHANGED <<composition, arg, update, delivered, requests, frames,
                   instance>>

\* self.formatter.format_number(num)
CallNumber ==
    /\ pc = "num_call"
    /\ pc' = "num_ret"
    /\ LET r == format_number(arg)
       IN  IF r.raised
           THEN caught' = JStr(r.err) /\ UNCHANGED result
           ELSE result' = <<r.val>> /\ UNCHANGED caught
    /\ UNCHANGED <<composition, arg, update, delivered, requests, frames,
                   instance>>

NextFormat ==
    \/ CallEmoji
    \/ CallPercentage
    \/ CallNumber

SpecFormat == InitFormat /\ [][NextFormat]_vars

\* the five buckets of the index, from the lowest to the highest
Buckets ==
    <<[lo |-> 0, hi |-> 24, mark |-> "(extreme-fear)"],
      [lo |-> 25, hi |-> 44, mark |-> "(fear)"],
      [lo |-> 45, hi |-> 54, mark |-> "(neutral)"],
      [lo |-> 55, hi |-> 74, mark |-> "(greed)"],
      [lo |-> 75, hi |-> 100, mark |-> "(extreme-greed)"]>>

BucketOf(mark) == CHOOSE b \in 1..Len(Buckets) : Buckets[b].mark = mark

InBucket(v, b) == Buckets[b].lo <= v /\ v <= Buckets[b].hi

EmojiReturned == pc = "emoji_ret" /\ caught = JNull

\* C11: get_fear_greed_emoji maps every integer of 0..100 to the marker of
\* the one bucket whose inclusive range holds it (0..24, 25..44, 45..54,
\* 55..74, 75..100), and the mapping is monotone: no smaller value gets a
\* higher bucket
C11_EmojiBuckets ==
    EmojiReturned =>
        /\ \E b \in 1..Len(Buckets) :
              /\ InBucket(arg.v, b)
              /\ result = <<Buckets[b].mark>>
              /\ \A c \in 1..Len(Buckets) : InBucket(arg.v, c) => c = b
        /\ \A w \in SentimentValues :
              w <= arg.v =>
                 BucketOf(get_fear_greed_emoji(JNum(w)).val)
                     <= BucketOf(result[1])

\* the lower bound 75 of the top bucket has been classified
C11_Witness ==
    EmojiReturned /\ arg.v = 75 /\ result = <<"(extreme-greed)">>

HasChar(line, ch) == \E i \in 1..Len(line) : SubSeq(line, i, i) = ch

PercentageReturned == pc = "pct_ret" /\ caught = JNull

\* C12: format_percentage renders an absent value as "N/A", a value above
\* zero with the positive marker and a '+', and a value of zero or below
\* with the negative marker and no '+'
C12_PercentageMarkers ==
    PercentageReturned =>
        IF arg.t = "null" THEN result = <<"N/A">>
        ELSE IF ~Limbs(arg).neg /\ Limbs(arg).hi + Limbs(arg).lo > 0
        THEN HasPrefix(result[1], MARKER_UP) /\ HasChar(result[1], "+")
        ELSE HasPrefix(result[1], MARKER_DOWN) /\ ~HasChar(result[1], "+")

\* exactly zero has been rendered, with the negative marker
C12_Witness ==
    /\ PercentageReturned
    /\ arg = JNum(0)
    /\ result = <<MARKER_DOWN \o " 0.00%">>

SUFFIX == [k \in TierIndex |->
             CASE k = 0 -> "" [] k = 1 -> "K" [] k = 2 -> "M"
               [] k = 3 -> "B" [] k = 4 -> "T"]

\* the tier of the magnitude 10^(3k) + d for an offset d that is small
\* against 10^(3k): the bound itself belongs to the tier it opens
ExpectedTier(k, d) ==
    IF k = 0 THEN "" ELSE IF d >= 0 THEN SUFFIX[k] ELSE SUFFIX[k - 1]

LastChar(line) == SubSeq(line, Len(line), Len(line))

HasTier(line, tier) ==
    IF tier = "" THEN LastChar(line) \notin {"K", "M", "B", "T"}
    ELSE LastChar(line) = tier

NumberReturned == pc = "num_ret" /\ caught = JNull

\* the number of the other sign
Opposite(x) ==
    IF x.t = "big" THEN JBig(0 - x.hi, 0 - x.lo) ELSE JNum(0 - x.v)

\* C13: format_number renders an absent amount as "N/A"; otherwise the
\* suffix is the tier of the absolute value, T from 10^12, B from 10^9,
\* M from 10^6, K from 10^3 (each bound included) and none below, and a
\* negative amount is rendered as its positive counterpart with the sign
C13_NumberTiers ==
    NumberReturned =>
        /\ arg.t = "null" => result = <<"N/A">>
        /\ \A sign \in Signs, k \in TierIndex, d \in Offsets :
              arg = Amount(sign, k, d) =>
                 /\ HasPrefix(result[1], "$")
                 /\ HasTier(result[1], ExpectedTier(k, d))
        /\ (IsNumber(arg) /\ Limbs(arg).neg) =>
              LET pos == format_number(Opposite(arg)).val
              IN  result[1] = "$-" \o SubSeq(pos, 2, Len(pos))

\* minus 10^12, the bound of the top tier, has been rendered
C13_Witness ==
    /\ NumberReturned
    /\ arg = JBig(-1000, 0)
    /\ result = <<"$-1.00T">>

(***************************************************************************)
(* The provider calls of one composition                                   *)
(***************************************************************************)
\* C14: when create_market_summary returns, each of the six providers has
\* been called exactly once, by a single GET: none twice, none retried and
\* none skipped, whatever the earlier calls returned
C14_EachProviderOnce ==
    Returned => \A a \in Adapters : calls[a] = 1

(***************************************************************************)
(* Several compositions in progress on the one bot_instance.  The handlers *)
(* are coroutines of one dispatcher; the model lets the activations of     *)
(* create_market_summary interleave at every provider call, which covers   *)
(* every schedule of the dispatcher.  An activation keeps the adapter      *)
(* results in its local variables (its frame).                             *)
(***************************************************************************)
Order == <<"overview", "movers", "trending", "defi", "sentiment", "bitcoin">>

\* the adapter called at a position of the try block
Adapter(a, resp) ==
    CASE a = "overview" -> get_market_overview(resp)
      [] a = "movers" -> get_top_movers(resp)
      [] a = "trending" -> get_trending_coins(resp)
      [] a = "defi" -> get_hot_defi_projects(resp)
      [] a = "sentiment" -> get_fear_greed_index(resp)
      [] a = "bitcoin" -> get_bitcoin_price(resp)

\* the assignment of the value an adapter returned
Store(frame, a, val) ==
    CASE a = "overview" -> [frame EXCEPT !.market_overview = val]
      [] a = "movers" -> [frame EXCEPT !.gainer = val[1], !.loser = val[2]]
      [] a = "trending" -> [frame EXCEPT !.trending = val]
      [] a = "defi" -> [frame EXCEPT !.hot_defi = val]
      [] a = "sentiment" -> [frame EXCEPT !.fear_greed = val]
      [] a = "bitcoin" -> [frame EXCEPT !.btc_data = val]

\* the sections and the join, on the local variables of a frame
Assemble(frame, time) ==
    message_parts(frame.market_overview, frame.gainer, frame.loser,
                  frame.trending, frame.hot_defi, frame.fear_greed,
                  frame.btc_data, time)

\* the six assignments of the try block on the responses received, up to
\* the first adapter that raises
RECURSIVE Gather(_, _, _)
Gather(received, i, frame) ==
    IF i > Len(Order) THEN Ok(frame)
    ELSE LET out == Adapter(Order[i], received[i])
         IN  IF out.raised THEN out
             ELSE Gather(received, i + 1, Store(frame, Order[i], out.val))

\* create_market_summary as a function of the responses it receives and
\* of the time it reads
create_market_summary(received, time) ==
    LET g == Gather(received, 1, NewFrame)
    IN  IF g.raised THEN _create_error_message(g.err)
        ELSE LET m == Assemble(g.val, time)
             IN  IF m.raised THEN _create_error_message(m.err) ELSE m.val

\* the outcomes of the GET of an adapter in this specification
ConcurrentResponses(a) ==
    CASE a = "overview" ->
           {[adapter |-> a, kind |-> "ok", body |-> GlobalData(JNum(52))]}
      [] a = "movers" ->
           {[adapter |-> a, kind |-> "HTTPError", body |-> JNull],
            [adapter |-> a, kind |-> "ok",
             body |-> CHOOSE b \in MoversBodies : b.t = "arr" /\ Len(b.v) = 3]}
      [] a = "trending" ->
           {[adapter |-> a, kind |-> "ok",
             body |-> CHOOSE b \in TrendingBodies :
                         b.v["coins"].t = "arr" /\ Len(b.v["coins"].v) = 6]}
      [] a = "defi" ->
           {[adapter |-> a, kind |-> "ok",
             body |-> CHOOSE b \in DefiBodies : b.t = "arr" /\ Len(b.v) = 3]}
      [] a = "sentiment" ->
           {[adapter |-> a, kind |-> "ok",
             body |-> SentimentReading(JStr("75"))],
            [adapter |-> a, kind |-> "ok",
             body |-> SentimentReading(JStr("n/a"))]}
      [] a = "bitcoin" ->
           {[adapter |-> a, kind |-> "ConnectionError", body |-> JNull],
            [adapter |-> a, kind |-> "ok",
             body |-> JObj(<<"bitcoin">>, [bitcoin |-> EmptyDict])]}

\* one frame for all activations: the results kept in attributes of the
\* shared instance
Frame_Shared(r) == 1

\* the frame of an activation: local variables are its own
Frame(r) == r

InitConcurrent ==
    /\ pc = "dispatch"
    /\ IdleComposition
    /\ ExtraInit

\* alpha_command is called with the /alpha message of a chat and calls
\* bot_instance.create_market_summary()
BeginSummary(r) ==
    /\ requests[r].pc = "idle"
    /\ Len(delivered)
         + Cardinality({q \in Requests : requests[q].pc # "idle"}) < MaxSent
    /\ \E chat \in Chats :
         requests' = [requests EXCEPT ![r] =
                         [pc |-> Order[1],
                          update |-> CommandUpdate("/alpha", chat),
                          received |-> <<>>, time |-> "",
                          returned |-> <<>>]]
    /\ frames' = [frames EXCEPT ![Frame(r)] = NewFrame]
    /\ UNCHANGED <<pc, composition, caught, result, arg, update, delivered,
                   instance>>

\* one provider call of an activation: the GET, the adapter, the
\* assignment; an exception goes to the except clause
FetchStep(r, i) ==
    /\ requests[r].pc = Order[i]
    /\ \E resp \in ConcurrentResponses(Order[i]) :
         LET out == Adapter(Order[i], resp)
             got == Append(requests[r].received, resp)
         IN  IF out.raised
             THEN /\ requests' = [requests EXCEPT ![r] =
                        [@ EXCEPT !.pc = "done", !.received = got,
                                  !.returned = _create_error_message(out.err)]]
                  /\ UNCHANGED frames
             ELSE /\ requests' = [requests EXCEPT ![r] =
                        [@ EXCEPT !.pc = IF i = Len(Order) THEN "compose"
                                         ELSE Order[i + 1],
                                  !.received = got]]
                  /\ frames' = [frames EXCEPT ![Frame(r)] =
                                   Store(@, Order[i], out.val)]
    /\ UNCHANGED <<pc, composition, caught, result, arg, update, delivered,
                   instance>>

\* the rest of the try block of an activation
AssembleSummary(r) ==
    /\ requests[r].pc = "compose"
    /\ \E time \in Times :
         LET m == Assemble(frames[Frame(r)], time)
         IN  requests' = [requests EXCEPT ![r] =
                [@ EXCEPT !.pc = "done", !.time = time,
                          !.returned = IF m.raised
                                       THEN _create_error_message(m.err)
                                       ELSE m.val]]
    /\ UNCHANGED <<pc, composition, caught, result, arg, update, delivered,
                   frames, instance>>

\* alpha_command replies to its message with the returned text and ends
ReplySummary(r) ==
    /\ requests[r].pc = "done"
    /\ delivered' = delivered \o reply_text(requests[r].update.message,
                                            requests[r].returned).val
    /\ requests' = [requests EXCEPT ![r] = IdleRequest]
    /\ UNCHANGED <<pc, composition, caught, result, arg, update, frames,
                   instance>>

NextConcurrent ==
    \E r \in Requests :
        \/ BeginSummary(r)
        \/ \E i \in 1..Len(Order) : FetchStep(r, i)
        \/ AssembleSummary(r)
        \/ ReplySummary(r)

SpecConcurrent == InitConcurrent /\ [][NextConcurrent]_vars

Nows == {START_SECONDS + 5, START_SECONDS + 3700, START_SECONDS + 86405,
         START_SECONDS + 172805}

\* the values of datetime.now(timezone.utc).strftime('%H:%M UTC')
Clocks == {"00:00 UTC", "23:59 UTC"}

Commands == {"/start", "/alpha", "/btc", "/trending", "/defi", "/menu",
             "/help", "/about"}

DataButtons == {"get_alpha", "get_btc", "get_trending", "get_defi"}

PageButtons == {"show_menu", "show_help", "show_about"}

ButtonUpdate(data, chat) ==
    [message |-> JNull,
     callback_query |-> [data |-> data,
                         message |-> [chat_id |-> chat],
                         from_user |-> User(chat)],
     command |-> ""]

Updates ==
    {CommandUpdate(c, chat) : c \in Commands, chat \in Chats}
    \cup {ButtonUpdate(d, chat) : d \in DataButtons \cup PageButtons,
                                  chat \in Chats}

\* update.effective_message: the message of the update, or else the
\* message of its callback query
effective_message(u) ==
    IF u.message # JNull THEN u.message
    ELSE IF u.callback_query # JNull THEN u.callback_query.message
    ELSE JNull

\* update.effective_user: the sender of the message, or else the user who
\* pressed the button
effective_user(u) ==
    IF u.message # JNull THEN u.message.from_user
    ELSE IF u.callback_query # JNull THEN u.callback_query.from_user
    ELSE JNull

\* query.edit_message_text(text): the message that holds the keyboard
\* shows the text in its chat
edit_message_text(query, text) ==
    Ok(<<[chat |-> query.message.chat_id, text |-> text]>>)

welcome_message(user_name) ==
    <<"*Welcome " \o user_name \o "!*",
      "",
      "I'm *" \o BOT_NAME \o "* - your crypto intelligence assistant!",
      "",
      "*What I can do:*",
      "Real-time market analysis",
      "Bitcoin & altcoin tracking",
      "Market sentiment analysis",
      "DeFi protocol insights",
      "Trending cryptocurrency alerts",
      "",
      "*Quick Commands:*",
      "/alpha - Market summary",
      "/btc - Bitcoin price",
      "/trending - Hot coins",
      "/defi - Top DeFi projects",
      "/menu - All options",
      "",
      "*Add me to groups/channels for shared updates!*">>

\* the message of btc_command (command) and of the get_btc branch of
\* button_callback: the price as f"${price:,.2f}"
btc_message(btc, command, clock) ==
    IF ~Truthy(btc)
    THEN Ok(<<IF command THEN "Unable to fetch Bitcoin price data"
              ELSE "Unable to fetch Bitcoin data">>)
    ELSE Then(Subscript(btc, "price"), LAMBDA usd :
         Then(FormatFloat(usd, TRUE), LAMBDA price :
         Then(format_percentage(GetOr(btc, "change_24h", JNum(0))),
              LAMBDA change :
         Then(format_number(GetOr(btc, "market_cap", JNum(0))),
              LAMBDA mcap :
              Ok(<<IF command THEN "*BITCOIN PRICE*" ELSE "*BITCOIN UPDATE*",
                   "",
                   "*Price:* $" \o price \o ".00",
                   "*24h Change:* " \o change,
                   "*Market Cap:* " \o mcap,
                   "",
                   clock>>)))))

\* the lines of a coin in trending_command (command) and in the
\* get_trending branch of button_callback
TrendingEntryLines(i, coin, command) ==
    IF coin.t # "obj"
    THEN Raise("'" \o PyTypeName(coin) \o "' object has no attribute 'get'")
    ELSE LET rank == GetOr(coin, "market_cap_rank", JNull)
             rank_text == IF Truthy(rank) THEN "#" \o PyStr(rank)
                          ELSE IF command THEN "Unranked" ELSE "NR"
             full == GetOr(coin, "name", JStr("Unknown"))
         IN  Then(IF command THEN Ok(full) ELSE Slice(full, 15),
                  LAMBDA name :
             Then(upper(GetOr(coin, "symbol", JStr(""))), LAMBDA symbol :
                  LET head == ToString(i) \o ". *" \o PyStr(name) \o "* ("
                              \o symbol \o ")"
                  IN  Ok(IF command
                         THEN <<head, "    Rank: " \o rank_text, "">>
                         ELSE <<head \o " " \o rank_text>>)))

\* the concatenation of sequences of lines
RECURSIVE Joined(_)
Joined(parts) ==
    IF parts = <<>> THEN <<>> ELSE parts[1] \o Joined(Tail(parts))

\* the message of trending_command, which lists every coin, and of the
\* get_trending branch of button_callback, which lists trending[:5]
trending_message(coins, command, clock) ==
    IF ~Truthy(coins) THEN Ok(<<"Unable to fetch trending data">>)
    ELSE Then(IF command THEN Ok(coins) ELSE Slice(coins, 5),
              LAMBDA top :
         Then(Iterate(top), LAMBDA shown :
         Then(Gathered([i \in 1..Len(shown) |->
                           TrendingEntryLines(i, shown[i], command)]),
              LAMBDA ls :
              Ok((IF command THEN <<"*TRENDING CRYPTOCURRENCIES*", "">>
                  ELSE <<"*TRENDING COINS*", "">>)
                 \o Joined(ls) \o <<"", clock>>))))

\* the lines of a protocol in defi_command (command) and in the get_defi
\* branch of button_callback
DefiEntryLines(i, project, command) ==
    IF project.t # "obj"
    THEN Raise("'" \o PyTypeName(project)
               \o "' object has no attribute 'get'")
    ELSE LET full == GetOr(project, "name", JStr("Unknown"))
         IN  Then(IF command THEN Ok(full) ELSE Slice(full, 15),
                  LAMBDA name :
             Then(format_number(GetOr(project, "tvl", JNum(0))),
                  LAMBDA tvl :
             Then(format_percentage(GetOr(project, "change_1d", JNum(0))),
                  LAMBDA change :
                  LET head == ToString(i) \o ". *" \o PyStr(name) \o "*"
                  IN  Ok(IF command
                         THEN <<head,
                                "    TVL: " \o tvl,
                                "    24h: " \o change,
                                "    " \o PyStr(GetOr(project, "category",
                                                      JStr("DeFi"))),
                                "">>
                         ELSE <<head, "    " \o tvl \o " " \o change>>))))

\* the message of defi_command and of the get_defi branch of
\* button_callback on defi_projects[:5]
defi_message(defi_projects, command, clock) ==
    IF ~Truthy(defi_projects) THEN Ok(<<"Unable to fetch DeFi data">>)
    ELSE Then(Slice(defi_projects, 5), LAMBDA top :
         Then(Iterate(top), LAMBDA shown :
         Then(Gathered([i \in 1..Len(shown) |->
                           DefiEntryLines(i, shown[i], command)]),
              LAMBDA ls :
              Ok(<<"*TOP DEFI PROTOCOLS*", "">> \o Joined(ls)
                 \o <<"", clock>>))))

menu_message ==
    <<"*ALPHASCOPE BOT MENU*",
      "",
      "*Market Data:*",
      "/alpha - Complete market summary",
      "/btc - Bitcoin price & stats",
      "/trending - Trending cryptocurrencies",
      "/defi - Top DeFi protocols",
      "",
      "*Bot Functions:*",
      "/menu - Show this menu",
      "/help - Detailed help guide",
      "/about - Bot information",
      "",
      "*Pro Tips:*",
      "Add me to groups for shared updates",
      "Use buttons for faster access",
      "Commands work in any chat with me",
      "">>

help_text ==
    <<"*" \o BOT_NAME \o " HELP GUIDE*",
      "",
      "*What I Do:*",
      "I provide real-time cryptocurrency market intelligence by analyzing data from multiple sources.",
      "",
      "*Data Sources:*",
      "CoinGecko - Price & market data",
      "DefiLlama - DeFi TVL data",
      "Alternative.me - Sentiment analysis",
      "",
      "*Available Commands:*",
      "/start - Welcome & quick buttons",
      "/alpha - Full market analysis",
      "/btc - Bitcoin price update",
      "/trending - Hot cryptocurrencies",
      "/defi - Top DeFi protocols",
      "/menu - Interactive menu",
      "/help - This help guide",
      "",
      "*How to Use:*",
      "Personal chat: Just send any command",
      "Groups: Add me and use commands",
      "Channels: Add me as admin for posting",
      "",
      "*Tips:*",
      "Use buttons for faster interaction",
      "All data is real-time and free",
      "Perfect for crypto communities",
      "No configuration required!",
      "",
      "*Need more help?* Contact my creator!">>

\* uptime_str is str(uptime).split('.')[0]: the days, when there are any,
\* then H:MM:SS; started is start_time.strftime('%Y-%m-%d %H:%M UTC'),
\* the date of the Gregorian calendar counted from 2024-01-01 (the day
\* 739191 after 0000-03-01)
about_text(now, start_time) ==
    LET uptime == now - start_time
        days == uptime \div 86400
        rest == uptime % 86400
        uptime_str == (IF days = 0 THEN ""
                       ELSE ToString(days)
                            \o (IF Abs(days) = 1 THEN " day, "
                                ELSE " days, "))
                      \o ToString(rest \div 3600) \o ":"
                      \o Pad2((rest % 3600) \div 60) \o ":"
                      \o Pad2(rest % 60)
        z == start_time \div 86400 + 739191
        era == z \div 146097
        doe == z % 146097
        yoe == (doe - doe \div 1460 + doe \div 36524 - doe \div 146096)
               \div 365
        doy == doe - (365 * yoe + yoe \div 4 - yoe \div 100)
        mp == (5 * doy + 2) \div 153
        day == doy - (153 * mp + 2) \div 5 + 1
        month == IF mp < 10 THEN mp + 3 ELSE mp - 9
        year == yoe + era * 400 + (IF month <= 2 THEN 1 ELSE 0)
        second == start_time % 86400
        started == ToString(year) \o "-" \o Pad2(month) \o "-" \o Pad2(day)
                   \o " " \o Pad2(second \div 3600) \o ":"
                   \o Pad2((second % 3600) \div 60) \o " UTC"
    IN
    <<"*" \o BOT_NAME \o "*",
      "",
      "*Version:* " \o BOT_VERSION,
      "*Uptime:* " \o uptime_str,
      "*Started:* " \o started,
      "",
      "*Features:*",
      "Real-time crypto market data",
      "Bitcoin price tracking",
      "Market sentiment analysis",
      "DeFi protocol monitoring",
      "Trending cryptocurrency alerts",
      "",
      "*Technical:*",
      "Python 3.11+ powered",
      "Multiple API integrations",
      "Error-resilient design",
      "Works in any chat type",
      "",
      "*License:* Open Source (MIT)",
      "*Created with:* for the crypto community">>

error_text ==
    <<"*Something went wrong!*",
      "",
      "Please try again in a moment. If the issue persists, the APIs might be temporarily unavailable.",
      "",
      "Use /help for assistance.">>

\* the responses of the GETs create_market_summary makes when the
\* providers would answer with full: up to the first adapter that raises
Requested(full) ==
    LET raising == {i \in 1..Len(full) : Adapter(Order[i], full[i]).raised}
    IN  IF raising = {} THEN full
        ELSE SubSeq(full, 1, CHOOSE i \in raising :
                                 \A j \in raising : i <= j)

\* the responses a handler can receive to its GETs
Received(handler) ==
    CASE handler \in {"alpha_command", "get_alpha"} ->
           {Requested(<<o, m, t, d, s, b>>) :
               o \in ConcurrentResponses("overview"),
               m \in ConcurrentResponses("movers"),
               t \in ConcurrentResponses("trending"),
               d \in ConcurrentResponses("defi"),
               s \in ConcurrentResponses("sentiment"),
               b \in ConcurrentResponses("bitcoin")}
      [] handler \in {"btc_command", "get_btc"} ->
           {<<r>> : r \in Responses("bitcoin", BitcoinBodies)}
      [] handler \in {"trending_command", "get_trending"} ->
           {<<r>> : r \in Responses("trending", TrendingBodies)}
      [] handler \in {"defi_command", "get_defi"} ->
           {<<r>> : r \in Responses("defi", DefiBodies)}
      [] OTHER -> {<<>>}

\* each command handler builds its text and ends with
\* update.message.reply_text(text)
start_command(u) ==
    reply_text(u.message, welcome_message(effective_user(u).first_name))

alpha_command(u, received, time) ==
    reply_text(u.message, create_market_summary(received, time))

btc_command(u, received, clock) ==
    Then(get_bitcoin_price(received[1]), LAMBDA data :
    Then(btc_message(data, TRUE, clock), LAMBDA message :
         reply_text(u.message, message)))

trending_command(u, received, clock) ==
    Then(get_trending_coins(received[1]), LAMBDA data :
    Then(trending_message(data, TRUE, clock), LAMBDA message :
         reply_text(u.message, message)))

defi_command(u, received, clock) ==
    Then(get_hot_defi_projects(received[1]), LAMBDA data :
    Then(defi_message(data, TRUE, clock), LAMBDA message :
         reply_text(u.message, message)))

menu_command(u) == reply_text(u.message, menu_message)

help_command(u) == reply_text(u.message, help_text)

about_command(u, now, bot) ==
    reply_text(u.message, about_text(now, bot.start_time))

\* button_callback: a data button fetches and puts its text in the message
\* of the keyboard; for a page button the handler of the page is awaited
\* with the update of the press; any other data does nothing
button_callback(u, now, bot, received, time, clock) ==
    LET query == u.callback_query
    IN  CASE query.data = "get_alpha" ->
               edit_message_text(query,
                                 create_market_summary(received, time))
          [] query.data = "get_btc" ->
               Then(get_bitcoin_price(received[1]), LAMBDA data :
               Then(btc_message(data, FALSE, clock), LAMBDA message :
                    edit_message_text(query, message)))
          [] query.data = "get_trending" ->
               Then(get_trending_coins(received[1]), LAMBDA data :
               Then(trending_message(data, FALSE, clock), LAMBDA message :
                    edit_message_text(query, message)))
          [] query.data = "get_defi" ->
               Then(get_hot_defi_projects(received[1]), LAMBDA data :
               Then(defi_message(data, FALSE, clock), LAMBDA message :
                    edit_message_text(query, message)))
          [] query.data = "show_menu" -> menu_command(u)
          [] query.data = "show_help" -> help_command(u)
          [] query.data = "show_about" -> about_command(u, now, bot)
          [] OTHER -> Ok(<<>>)

\* error_handler: the reply to the effective message of the update
error_handler(u) ==
    IF u # NoUpdate /\ effective_message(u) # JNull
    THEN reply_text(effective_message(u), error_text)
    ELSE Ok(<<>>)

InitDispatch ==
    /\ pc = "polling"
    /\ IdleComposition
    /\ ExtraInit

\* the dispatcher takes the next update and selects the handler main
\* registers for it; http and calls then record the GETs made for it
Receive ==
    /\ pc = "polling"
    /\ Len(delivered) < MaxSent
    /\ \E u \in Updates :
         /\ update' = u
         /\ pc' = IF u.callback_query # JNull THEN "button_callback"
                  ELSE SubSeq(u.command, 2, Len(u.command)) \o "_command"
    /\ http' = NoRequest
    /\ calls' = [a \in Adapters |-> 0]
    /\ caught' = JNull
    /\ UNCHANGED <<locals, current_time, result, arg, delivered, requests,
                   frames, instance>>

\* the end of a handler that received the responses to its GETs: its
\* texts are in the chat, or its exception goes to the error handler
Handled(out, received) ==
    /\ http' = IF received = <<>> THEN http ELSE received[Len(received)]
    /\ calls' = [a \in Adapters |->
                    Cardinality({i \in DOMAIN received :
                                    received[i].adapter = a})]
    /\ IF out.raised
       THEN /\ caught' = JStr(out.err)
            /\ pc' = "error_handler"
            /\ UNCHANGED delivered
       ELSE /\ delivered' = delivered \o out.val
            /\ pc' = "polling"
            /\ UNCHANGED caught
    /\ UNCHANGED <<locals, current_time, result, arg, update, requests,
                   frames, instance>>

StartCommand ==
    /\ pc = "start_command"
    /\ Handled(start_command(update), <<>>)

AlphaCommand ==
    /\ pc = "alpha_command"
    /\ \E received \in Received(pc), time \in Times :
         Handled(alpha_command(update, received, time), received)

BtcCommand ==
    /\ pc = "btc_command"
    /\ \E received \in Received(pc), clock \in Clocks :
         Handled(btc_command(update, received, clock), received)

TrendingCommand ==
    /\ pc = "trending_command"
    /\ \E received \in Received(pc), clock \in Clocks :
         Handled(trending_command(update, received, clock), received)

DefiCommand ==
    /\ pc = "defi_command"
    /\ \E received \in Received(pc), clock \in Clocks :
         Handled(defi_command(update, received, clock), received)

MenuCommand ==
    /\ pc = "menu_command"
    /\ Handled(menu_command(update), <<>>)

HelpCommand ==
    /\ pc = "help_command"
    /\ Handled(help_command(update), <<>>)

AboutCommand ==
    /\ pc = "about_command"
    /\ \E now \in Nows : Handled(about_command(update, now, instance), <<>>)

\* the clock is read only in the branch that prints it
ButtonCallback ==
    /\ pc = "button_callback"
    /\ LET data == update.callback_query.data
       IN  \E received \in Received(data),
              now \in IF data = "show_about" THEN Nows ELSE {START_SECONDS},
              time \in IF data = "get_alpha" THEN Times ELSE {""},
              clock \in IF data \in DataButtons \ {"get_alpha"}
                        THEN Clocks ELSE {""} :
             Handled(button_callback(update, now, instance, received, time,
                                     clock),
                     received)

ErrorHandler ==
    /\ pc = "error_handler"
    /\ LET out == error_handler(update)
       IN  delivered' = delivered \o (IF out.raised THEN <<>> ELSE out.val)
    /\ pc' = "polling"
    /\ UNCHANGED <<composition, caught, result, arg, update, requests,
                   frames, instance>>

NextDispatch ==
    \/ Receive
    \/ StartCommand
    \/ AlphaCommand
    \/ BtcCommand
    \/ TrendingCommand
    \/ DefiCommand
    \/ MenuCommand
    \/ HelpCommand
    \/ AboutCommand
    \/ ButtonCallback
    \/ ErrorHandler

SpecDispatch == InitDispatch /\ [][NextDispatch]_vars

\* the texts the command of a page delivers in a chat
PageTexts(data, chat) ==
    CASE data = "show_menu" ->
           {menu_command(CommandUpdate("/menu", chat)).val}
      [] data = "show_help" ->
           {help_command(CommandUpdate("/help", chat)).val}
      [] data = "show_about" ->
           {about_command(CommandUpdate("/about", chat), now, instance).val :
               now \in Nows}

\* C16: for the press of the menu, help or about button the error handler
\* is not run, and when the press has been handled the chat has received
\* the text that /menu, /help or /about delivers there
C16_ButtonsDeliverPages ==
    \A data \in PageButtons, chat \in Chats :
        update = ButtonUpdate(data, chat) =>
           /\ pc # "error_handler"
           /\ pc = "polling" =>
                 /\ Len(delivered) > 0
                 /\ <<delivered[Len(delivered)]>> \in PageTexts(data, chat)

====
